---- MODULE Spec2Model ----
(***************************************************************************)
(* A model of the aggregation, cross-tab, per-capita and ranking steps of  *)
(* the incident-data analysis scripts.  A table is a set of column names   *)
(* and a sequence of rows; a row is a function from column names to cell   *)
(* values.  Each script is a small state machine: rows are read from the   *)
(* spreadsheet, the script's rename / prepare step runs, and then each     *)
(* analysis function is an action that leaves its result in `out`.         *)
(***************************************************************************)
EXTENDS Integers, Sequences, FiniteSets, TLC

VARIABLES
    script,      \* the script that is running
    pc,          \* the number of calls the script has made (0: rows are being read)
    cursor,      \* position reached in the spreadsheet
    df,          \* the table held by the caller (load_data's result)
    df_clean,    \* the table the analyses read (prepare_data's result)
    population,  \* the external population source (CountryInfo)
    op,          \* the analysis function that ran last
    out          \* its result

vars == <<script, pc, cursor, df, df_clean, population, op, out>>

(***************************************************************************)
(* Cell values.  A numeric cell holds a natural number, NaN (a missing     *)
(* value) or NotNumeric (text that fails numeric coercion); a categorical  *)
(* cell holds a string or NA (a missing value).                            *)
(***************************************************************************)
NaN == -1
NotNumeric == -2
NA == "<NA>"

NumericColumns ==
    {"eventid", "iyear", "imonth", "nkill", "nwound", "success",
     "Year", "Month", "Killed", "Wounded", "Casualties", "Decade", "population",
     "Success"}

Null(c) == IF c \in NumericColumns THEN NaN ELSE NA

IsNull(row, c) == row[c] = Null(c)

MaxRows == 9

(***************************************************************************)
(* Arithmetic helpers.                                                     *)
(***************************************************************************)
RECURSIVE SumSet(_, _)
SumSet(S, f) ==
    IF S = {} THEN 0
    ELSE LET x == CHOOSE y \in S : TRUE IN f[x] + SumSet(S \ {x}, f)

RECURSIVE GCD(_, _)
GCD(a, b) == IF b = 0 THEN a ELSE GCD(b, a % b)

Max(S) == CHOOSE x \in S : \A y \in S : y <= x
Min(S) == CHOOSE x \in S : \A y \in S : x <= y

Range(s) == {s[i] : i \in DOMAIN s}

\* round(2) of num/den, in hundredths, ties to the even hundredth.
Round2(num, den) ==
    LET q == (num * 100) \div den
        r == (num * 100) % den
    IN  IF 2 * r > den THEN q + 1
        ELSE IF 2 * r = den THEN q + (q % 2)
        ELSE q

(***************************************************************************)
(* The raw spreadsheet.                                                    *)
(***************************************************************************)
RawColumns ==
    {"eventid", "iyear", "imonth", "country_txt", "region_txt", "attacktype1_txt",
     "gname", "targtype1_txt", "nkill", "nwound"}

Raw(y, m, c, r, a, g, t, k, w) ==
    [iyear |-> y, imonth |-> m, country_txt |-> c, region_txt |-> r,
     attacktype1_txt |-> a, gname |-> g, targtype1_txt |-> t,
     nkill |-> k, nwound |-> w]

\* Rows of a sheet for the casualty aggregations.
CasualtySheet ==
    << Raw(2001, 1, "A", "Asia",   "Bombing", "A",       "Police",   5,          2),
       Raw(2001, 2, "B", "Asia",   "Bombing", "B",       "Police",   0,          0),
       Raw(2002, 3, "A", "Europe", "Assault", "A",       "Military", 3,          1),
       Raw(2002, 4, "B", "Europe", "Assault", "Unknown", "Military", 5,          0),
       Raw(2001, 5, "A", NA,       "Assault", "C",       "Police",   NaN,        1),
       Raw(NaN,  6, "B", "Asia",   "Bombing", "B",       "Police",   NotNumeric, 0),
       Raw(2002, 7, "Y", "Europe", "Bombing", "Y",       "Police",   8,          NaN),
       Raw(2001, 8, "X", "Africa", "Bombing", "X",       "Police",   8,          0) >>

\* The same rows with a record of Kazakhstan, for kazakhstan_rankings.
KazakhstanSheet == [CasualtySheet EXCEPT ![8].country_txt = "Kazakhstan"]

\* Rows of a sheet for the distribution analyses: seven regions, nine target
\* types, two decades, a row without a year and a row without a region.
EvolutionSheet ==
    << Raw(1971, 1, "A", "Africa",        "Bombing", "A",       "Business",         1, 0),
       Raw(1972, 2, "A", "Asia",          "Assault", "A",       "Government",       0, 2),
       Raw(1975, 3, "B", "Europe",        "Bombing", "B",       "Military",         2, 0),
       Raw(1979, 4, "B", "Oceania",       "Bombing", "B",       "Police",           0, 0),
       Raw(1981, 5, "A", "North America", "Assault", "A",       "Private Citizens", 1, 1),
       Raw(1983, 6, "C", "South America", "Bombing", "Unknown", "Religious",        0, 0),
       Raw(1985, 7, "B", "Central Asia",  "Assault", "B",       "Transportation",   3, 0),
       Raw(1986, 8, "C", "Africa",        "Bombing", "C",       "Utilities",        0, 1),
       Raw(1988, 9, "C", "Asia",          "Bombing", "C",       "Educational",      1, 0),
       Raw(NaN,  0, "A", "Africa",        "Bombing", "A",       "Business",         NaN, 0),
       Raw(1975, 3, "B", NA,              "Assault", "B",       "Business",         1, 0) >>

\* Rows of a sheet for the seasonal analyses: every season, an unknown
\* month (0), a missing month and a month number that is no month.
SeasonSheet ==
    << Raw(2001, 1,   "A", "Asia",   "Bombing", "A", "Police", 1, 0),
       Raw(2001, 4,   "A", "Asia",   "Bombing", "A", "Police", 0, 0),
       Raw(2001, 7,   "A", "Asia",   "Bombing", "A", "Police", 2, 1),
       Raw(2001, 10,  "A", "Asia",   "Bombing", "A", "Police", 0, 0),
       Raw(2002, 12,  "B", "Europe", "Bombing", "B", "Police", 1, 0),
       Raw(2002, 7,   "B", "Europe", "Bombing", "B", "Police", 0, 2),
       Raw(2002, 0,   "B", "Europe", "Bombing", "B", "Police", 3, 0),
       Raw(2002, NaN, "B", "Africa", "Bombing", "B", "Police", 0, 0),
       Raw(2002, 13,  "B", "Africa", "Bombing", "B", "Police", 0, 0) >>

\* Rows of a sheet for the per-capita rankings: the country names the
\* population lookup treats specially, a missing name and tied countries.
CountrySheet ==
    << Raw(2001, 1, "A",                        "Asia",         "Bombing", "A", "Police", 5, 0),
       Raw(2001, 2, "B",                        "Asia",         "Bombing", "B", "Police", 0, 0),
       Raw(2002, 3, "A",                        "Asia",         "Bombing", "A", "Police", 3, 0),
       Raw(2002, 4, "Russia",                   "Europe",       "Bombing", "A", "Police", 0, 0),
       Raw(2002, 5, "Russian Federation",       "Europe",       "Bombing", "A", "Police", 0, 0),
       Raw(2002, 6, "West Bank and Gaza Strip", "Asia",         "Bombing", "A", "Police", 0, 0),
       Raw(2002, 7, NA,                         "Asia",         "Bombing", "A", "Police", 0, 0),
       Raw(2002, 8, "X",                        "Africa",       "Bombing", "A", "Police", 0, 0),
       Raw(2002, 9, "Y",                        "Africa",       "Bombing", "A", "Police", 0, 0),
       Raw(2002, 10, "Kazakhstan",              "Central Asia", "Bombing", "A", "Police", 0, 0),
       Raw(2002, 11, "South Korea",             "Asia",         "Bombing", "A", "Police", 0, 0) >>

PerCapitaScripts == {"rank_per_capita", "analyze_per_capita"}

Scripts ==
    {"deadliest_attacks", "decade_comparison", "kazakhstan_rankings",
     "group_analysis", "seasonal_patterns", "success_rate_analysis", "main"}
       \cup PerCapitaScripts

\* Population figures the country-information source may hold.
PopulationSources ==
    { [n \in {"A"} |-> 2000000],
      [n \in {"A", "X", "Y", "Kazakhstan", "Russian Federation", "Korea, Republic of"} |->
         CASE n = "A" -> 2000000
           [] n = "Russian Federation" -> 4000000
           [] OTHER -> 1000000],
      [n \in {"B", "Russia", "Russian Federation", "West Bank and Gaza Strip"} |->
         CASE n = "B" -> 500000
           [] n = "Russia" -> 1000000
           [] n = "Russian Federation" -> 4000000
           [] OTHER -> 2000000] }

Sheet(s) ==
    CASE s = "deadliest_attacks" -> CasualtySheet
      [] s = "group_analysis" -> EvolutionSheet
      [] s \in PerCapitaScripts -> CountrySheet
      [] s = "seasonal_patterns" -> SeasonSheet
      [] s = "kazakhstan_rankings" -> KazakhstanSheet
      [] s = "decade_comparison" -> EvolutionSheet
      [] s = "success_rate_analysis" -> CasualtySheet

\* The success column of the sheet of success_rate_analysis, row by row.
SuccessFlags == <<1, 0, 1, 1, NaN, 1, 0, 1>>

\* The columns of the file a script loads.
FileColumns(s) ==
    CASE s = "success_rate_analysis" -> RawColumns \cup {"success"}
      [] s = "kazakhstan_rankings" -> RawColumns \cup {"city"}
      [] OTHER -> RawColumns

\* The column sets a loaded file may have: the full set, or the set without
\* the casualty column nkill or without the group column gname.
LoadableColumns(s) ==
    CASE s = "deadliest_attacks" ->
           {FileColumns(s), FileColumns(s) \ {"nkill"}, FileColumns(s) \ {"gname"}}
      [] s = "success_rate_analysis" ->
           {FileColumns(s), FileColumns(s) \ {"gname"}}
      [] OTHER -> {FileColumns(s)}

\* Row k of the sheet; eventid, the sheet's first column, is the row's number.
SheetRow(s, k) ==
    [c \in FileColumns(s) |->
       CASE c = "eventid" -> k
         [] c = "success" -> SuccessFlags[k]
         [] c = "city" -> "Almaty"
         [] OTHER -> Sheet(s)[k][c]]

(***************************************************************************)
(* Column renaming (DataFrame.rename): a listed column that exists gets    *)
(* its new name, every other column keeps its name.                        *)
(***************************************************************************)
RenameFull ==
    [iyear |-> "Year", imonth |-> "Month", iday |-> "Day",
     country_txt |-> "Country", region_txt |-> "Region",
     attacktype1_txt |-> "AttackType", target1 |-> "Target",
     nkill |-> "Killed", nwound |-> "Wounded", gname |-> "Group",
     targtype1_txt |-> "Target_type", weaptype1_txt |-> "Weapon_type"]

RenameWithCity == RenameFull @@ [city |-> "City"]

RenameWithSuccess == RenameFull @@ [success |-> "Success"]

NewName(mapping, c) == IF c \in DOMAIN mapping THEN mapping[c] ELSE c

OldName(mapping, cols, n) == CHOOSE c \in cols : NewName(mapping, c) = n

Rename(t, mapping) ==
    LET cols == {NewName(mapping, c) : c \in t.columns}
    IN  [columns |-> cols,
         rows |-> [i \in DOMAIN t.rows |->
                     [n \in cols |-> t.rows[i][OldName(mapping, t.columns, n)]]]]

\* the value left as it is, to set against C15
ToNumericFill0_Unfilled(v) == v

\* pd.to_numeric(x, errors="coerce").fillna(0)
ToNumericFill0(v) == IF v = NotNumeric \/ v = NaN THEN 0 ELSE v

CoerceKilled(row) == ToNumericFill0(row["Killed"])
CoerceWounded(row) == ToNumericFill0(row["Wounded"])
\* the sum added to the Casualties the row already has, to set against C19
AddCasualties_Accumulate(row) ==
    row["Killed"] + row["Wounded"]
       + (IF "Casualties" \in DOMAIN row THEN row["Casualties"] ELSE 0)

AddCasualties(row) == row["Killed"] + row["Wounded"]

\* str(n) for a natural number n
DigitStr(d) ==
    CASE d = 0 -> "0" [] d = 1 -> "1" [] d = 2 -> "2" [] d = 3 -> "3"
      [] d = 4 -> "4" [] d = 5 -> "5" [] d = 6 -> "6" [] d = 7 -> "7"
      [] d = 8 -> "8" [] d = 9 -> "9"

RECURSIVE IntStr(_)
IntStr(n) == IF n < 10 THEN DigitStr(n) ELSE IntStr(n \div 10) \o DigitStr(n % 10)

\* the nearest multiple of ten, to set against C17
DecadeOf_Nearest(row) ==
    IF row["Year"] = NaN THEN NaN ELSE ((row["Year"] + 5) \div 10) * 10

\* (df["Year"] // 10) * 10
DecadeOf(row) == IF row["Year"] = NaN THEN NaN ELSE (row["Year"] \div 10) * 10

\* astype(str) of a Decade cell: a column with a missing year is a float column
NumStr(v, isFloat) ==
    IF v = NaN THEN "nan"
    ELSE IF isFloat THEN IntStr(v) \o ".0"
    ELSE IntStr(v)

\* seasonal_patterns.prepare_data.get_season
get_season(month) ==
    IF month \in {12, 1, 2} THEN "Winter"
    ELSE IF month \in {3, 4, 5} THEN "Spring"
    ELSE IF month \in {6, 7, 8} THEN "Summer"
    ELSE "Autumn"

SeasonOf(row) == get_season(row["Month"])

\* Python's str() of the Decade column: the column is a float column when a
\* year is missing.
DecadeLabel(t, row) ==
    NumStr(row["Decade"], \E i \in DOMAIN t.rows : t.rows[i]["Decade"] = NaN) \o "s"

\* the value a script assigns to column c in a row of table t
Assigned(t, c, row) ==
    CASE c = "Killed" -> CoerceKilled(row)
      [] c = "Wounded" -> CoerceWounded(row)
      [] c = "Casualties" -> AddCasualties(row)
      [] c = "Decade" -> DecadeOf(row)
      [] c = "Decade_Label" -> DecadeLabel(t, row)
      [] c = "Season" -> SeasonOf(row)
      [] c = "population" ->
           IF row["country_txt"] \in DOMAIN population
           THEN population[row["country_txt"]] ELSE NaN

\* df[c] = ... : the column is added or overwritten in every row.
Assign(t, c) ==
    [columns |-> t.columns \cup {c},
     rows |-> [i \in DOMAIN t.rows |->
                 [n \in t.columns \cup {c} |->
                     IF n = c THEN Assigned(t, c, t.rows[i]) ELSE t.rows[i][n]]]]

\* deadliest_attacks.prepare_data
prepare_data_deadliest(t) ==
    Assign(Assign(Assign(Rename(t, RenameWithCity),
                         "Killed"),
                  "Wounded"),
           "Casualties")

\* deadliest_attacks.prepare_data when df["Killed"] or df["Wounded"] raises
\* KeyError: what the statements before it have done to the caller's table
prepare_data_deadliest_raised(t) ==
    IF "nkill" \in t.columns
    THEN Assign(Rename(t, RenameWithCity), "Killed")
    ELSE Rename(t, RenameWithCity)

\* decade_comparison.prepare_data
prepare_data_decade(t) ==
    LET t1 == Assign(Assign(Assign(Rename(t, RenameFull),
                                   "Killed"),
                            "Wounded"),
                     "Decade")
    IN  Assign(t1, "Decade_Label")

\* group_analysis.prepare_data
prepare_data_group(t) ==
    Assign(Assign(Assign(Rename(t, RenameFull),
                         "Killed"),
                  "Wounded"),
           "Casualties")

\* seasonal_patterns.prepare_data, the part that acts on the caller's table
prepare_data_seasonal_inplace(t) ==
    Assign(Assign(Rename(t, RenameFull), "Killed"),
           "Wounded")

\* a filter that lets month 0 through, to set against C16
ValidMonth_NonNegative(row) == row["Month"] /= NaN /\ row["Month"] >= 0

\* df[df["Month"] > 0]: a missing month compares false
ValidMonth(row) == row["Month"] /= NaN /\ row["Month"] > 0

\* seasonal_patterns.prepare_data, the table it returns
prepare_data_seasonal(t) ==
    LET t1 == prepare_data_seasonal_inplace(t)
    IN  Assign([t1 EXCEPT !.rows = SelectSeq(@, ValidMonth)], "Season")

(***************************************************************************)
(* Grouped aggregation (DataFrame.groupby(f).agg(...)): one group per      *)
(* distinct non-missing key; count counts the non-missing cells of the     *)
(* counted column; sum and mean skip missing cells.                        *)
(***************************************************************************)
GroupKeys(rows, f) == {rows[i][f] : i \in DOMAIN rows} \ {Null(f)}

Members(rows, f, k) == {i \in DOMAIN rows : rows[i][f] = k}

AggCount(rows, I, c) == Cardinality({i \in I : ~IsNull(rows[i], c)})

\* the sum of the whole column whatever the group, to set against C2
AggSum_WholeColumn(rows, I, c) ==
    SumSet(DOMAIN rows, [i \in DOMAIN rows |-> IF IsNull(rows[i], c) THEN 0 ELSE rows[i][c]])

\* sum skips missing cells
AggSum(rows, I, c) ==
    SumSet({i \in I : ~IsNull(rows[i], c)}, [i \in I |-> rows[i][c]])

\* mean().round(2), in hundredths; NaN for a group with no value.
AggMean2(rows, I, c) ==
    IF AggCount(rows, I, c) = 0 THEN NaN
    ELSE Round2(AggSum(rows, I, c), AggCount(rows, I, c))

\* min and max skip missing cells; NaN when the group has no value
AggMin(rows, I, c) ==
    LET vs == {rows[i][c] : i \in I} \ {Null(c)} IN IF vs = {} THEN NaN ELSE Min(vs)

\* the value of the group's last record, to set against C24
AggMax_Last(rows, I, c) == IF I = {} THEN NaN ELSE rows[Max(I)][c]

AggMax(rows, I, c) ==
    LET vs == {rows[i][c] : i \in I} \ {Null(c)} IN IF vs = {} THEN NaN ELSE Max(vs)

\* a distinct count that leaves 'Unknown' out, to set against C21
AggNUnique_KnownOnly(rows, I, c) ==
    Cardinality({rows[i][c] : i \in I} \ {Null(c), "Unknown"})

AggNUnique(rows, I, c) ==
    Cardinality({rows[i][c] : i \in I} \ {Null(c)})

\* Series.value_counts(): the missing value is not counted.
ValueCounts(rows, c) ==
    [k \in GroupKeys(rows, c) |-> Cardinality(Members(rows, c, k))]

\* round(1) of num/den, in tenths, ties to the even tenth
Round1(num, den) ==
    LET q == (num * 10) \div den
        r == (num * 10) % den
    IN  IF 2 * r > den THEN q + 1
        ELSE IF 2 * r = den THEN q + (q % 2)
        ELSE q

\* a / b of two numeric results, .round(2), in hundredths
Inf == -3
Div2(a, b) ==
    IF b = 0 THEN (IF a = 0 THEN NaN ELSE Inf) ELSE Round2(a, b)

(***************************************************************************)
(* Cross-tabs.  pd.crosstab counts the rows in which both fields are       *)
(* present; its rows and columns are the values that occur in those rows.  *)
(* A percentage is the exact fraction num / den; den = 0 stands for NaN.   *)
(***************************************************************************)
CrossTab(rows, rf, cf) ==
    LET valid == {i \in DOMAIN rows : ~IsNull(rows[i], rf) /\ ~IsNull(rows[i], cf)}
        R == {rows[i][rf] : i \in valid}
        C == {rows[i][cf] : i \in valid}
    IN  [r \in R |-> [c \in C |->
           Cardinality({i \in valid : rows[i][rf] = r /\ rows[i][cf] = c})]]

RowTotal(ct, r) == SumSet(DOMAIN ct[r], ct[r])

Frac(n, d) == [num |-> n, den |-> d]

FracLess(a, b) == a.num * b.den < b.num * a.den

\* the cells over the total of the whole table, to set against C3
NormalizeIndex_ByGrandTotal(ct) ==
    LET total == SumSet(DOMAIN ct, [r \in DOMAIN ct |-> RowTotal(ct, r)])
    IN  [r \in DOMAIN ct |->
           [c \in DOMAIN ct[r] |->
              IF total = 0 THEN Frac(0, 1) ELSE Frac(100 * ct[r][c], total)]]

\* normalize="index" followed by * 100: each cell over its row total, and a
\* cell left NaN by the division is filled with 0.
NormalizeIndex(ct) ==
    [r \in DOMAIN ct |->
       LET total == RowTotal(ct, r)
       IN  [c \in DOMAIN ct[r] |->
              IF total = 0 THEN Frac(0, 1) ELSE Frac(100 * ct[r][c], total)]]

\* pivot.div(pivot.sum(axis=1), axis=0) * 100: no fill, 0 / 0 stays NaN.
DivByRowSum(ct) ==
    [r \in DOMAIN ct |->
       LET total == RowTotal(ct, r)
       IN  [c \in DOMAIN ct[r] |-> Frac(100 * ct[r][c], total)]]

TableColumns(ct) == UNION {DOMAIN ct[r] : r \in DOMAIN ct}

\* table[cols]: the listed columns, or a KeyError when one is not a column.
KeyError == [kind |-> "error", error |-> "KeyError"]

SelectColumns(ct, cols) == [r \in DOMAIN ct |-> [c \in cols |-> ct[r][c]]]

\* value_counts().nlargest(k).index as a set: the k most frequent values,
\* any choice among the values tied at the cut-off.
TopKSets(counts, k) ==
    LET keys == DOMAIN counts
        size == IF k < Cardinality(keys) THEN k ELSE Cardinality(keys)
    IN  {S \in SUBSET keys :
           /\ Cardinality(S) = size
           /\ \A a \in S, b \in keys \ S : counts[a] >= counts[b]}

\* df[df[c].isin(values)]
IsIn(t, c, values) ==
    LET Keep(row) == row[c] \in values
    IN  [t EXCEPT !.rows = SelectSeq(@, Keep)]

(***************************************************************************)
(* Orders.  sort_values(ascending=False) with the default quicksort, and   *)
(* value_counts(), leave rows of equal value in an order the library does  *)
(* not fix: every order of the ties is a possible outcome.                 *)
(***************************************************************************)
RECURSIVE DescOrders(_, _)
DescOrders(S, val) ==
    IF S = {} THEN {<<>>}
    ELSE LET m == Max({val[k] : k \in S})
         IN  UNION {{<<k>> \o t : t \in DescOrders(S \ {k}, val)} :
                      k \in {x \in S : val[x] = m}}

\* sort_values(ascending=...)
SortOrders(S, val, ascending) ==
    IF ascending THEN DescOrders(S, [k \in S |-> 0 - val[k]]) ELSE DescOrders(S, val)

\* Python's order of the strings that occur as keys (groupby sorts its keys).
Lexicon ==
    <<"<NA>", "A", "Africa", "Almaty", "Asia", "Autumn", "B", "Business", "C",
      "Central Asia", "Educational", "Europe", "Government", "Kazakhstan",
      "Korea, Republic of", "Military", "North America", "Oceania", "Police",
      "Private Citizens", "Religious", "Russia", "Russian Federation",
      "South America", "South Korea", "Spring", "Summer", "Transportation",
      "Unknown", "Utilities", "West Bank and Gaza Strip", "Winter", "X", "Y">>

SortKeys(S) ==
    LET In(x) == x \in S IN SelectSeq(Lexicon, In)

RemoveAt(s, i) == SubSeq(s, 1, i - 1) \o SubSeq(s, i + 1, Len(s))

\* A stable descending sort: rows of equal value keep their order.
RECURSIVE StableDesc(_, _)
StableDesc(s, val) ==
    IF s = <<>> THEN <<>>
    ELSE LET m == Max({val[s[i]] : i \in DOMAIN s})
             i == Min({j \in DOMAIN s : val[s[j]] = m})
         IN  <<s[i]>> \o StableDesc(RemoveAt(s, i), val)

FirstN(s, n) == SubSeq(s, 1, IF n < Len(s) THEN n ELSE Len(s))

\* no row at all when fewer than n exist, to set against C11
NLargest_NoneWhenShort(s, val, n) ==
    IF n > Len(s) THEN {<<>>} ELSE {FirstN(t, n) : t \in DescOrders(Range(s), val)}

\* the first n rows as they stand, to set against C9
NLargest_Unsorted(s, val, n) == {FirstN(s, n)}

\* nlargest(n, column), keep="first", on rows in the order s.  With n below
\* the number of rows the selection is a stable sort, so ties keep the order
\* of s; otherwise the library falls back to sort_values(ascending=False)
\* followed by head(n), which leaves the order of ties open.
NLargest(s, val, n) ==
    IF n <= 0 THEN {<<>>}
    ELSE IF n >= Len(s) THEN {FirstN(t, n) : t \in DescOrders(Range(s), val)}
    ELSE {FirstN(StableDesc(s, val), n)}

(***************************************************************************)
(* State machine.                                                          *)
(***************************************************************************)
EmptyTable == [columns |-> RawColumns, rows |-> <<>>]

\* Python's None: what load_data returns when the file is not there, and what
\* a function returns that has no result
None == [kind |-> "None"]

\* a run_analysis that returned before any step
Returned == [kind |-> "returned"]

\* exit(): SystemExit ends the interpreter
SystemExit == [kind |-> "exit"]

NoPopulation == [n \in {} |-> 0]

\* The modelled functions of each script, in the order its driver calls them.
Steps(s) ==
    CASE s = "deadliest_attacks" ->
           <<"prepare_data", "analyze_deadliest_attacks",
             "plot_deadliest_by_region", "plot_deadliest_groups",
             "analyze_lethality_trends">>
      [] s = "decade_comparison" ->
           <<"prepare_data", "analyze_decade_overview", "analyze_regional_shift",
             "analyze_attack_type_evolution", "analyze_target_evolution">>
      [] s = "kazakhstan_rankings" ->
           <<"rename", "rank_countries_by_metric", "analyze_kazakhstan_data">>
      [] s = "group_analysis" ->
           <<"prepare_data", "analyze_most_active_groups",
             "analyze_group_activity_timeline", "analyze_group_targets",
             "analyze_group_geographic_spread", "analyze_central_asia_groups">>
      [] s = "success_rate_analysis" ->
           <<"prepare_data", "analyze_top_groups_success">>
      [] s = "seasonal_patterns" ->
           <<"prepare_data", "analyze_seasonal_patterns",
             "analyze_regional_seasonal_patterns">>
      [] s = "rank_per_capita" ->
           <<"rename", "rank_by_attacks_per_capita", "kazakhstan_rank">>
      [] s = "analyze_per_capita" ->
           <<"module">>
      [] s = "main" ->
           <<>>

\* pc counts the calls made so far; an exception ends the script.
Raised == out.kind = "error"

\* the script returned, or left the interpreter, for want of the file
Stopped == out.kind \in {"returned", "exit"}

Ready(s, name) ==
    /\ script = s
    /\ df /= None
    /\ ~Raised
    /\ ~Stopped
    /\ pc < Len(Steps(s))
    /\ Steps(s)[pc + 1] = name

Init ==
    /\ script \in Scripts
    /\ pc = 0
    /\ cursor = 0
    /\ \/ \E columns \in LoadableColumns(script) : df = [columns |-> columns, rows |-> <<>>]
       \/ df = None
    /\ df_clean = EmptyTable
    /\ population \in IF script \in PerCapitaScripts
                       THEN PopulationSources ELSE {NoPopulation}
    /\ op = "none"
    /\ out = [kind |-> "none"]

\* pd.read_excel: the next row of the sheet is either part of the file or not.
LoadRow ==
    /\ pc = 0
    /\ script /= "main"
    /\ df /= None
    /\ Len(df.rows) < MaxRows
    /\ \E k \in (cursor + 1) .. Len(Sheet(script)) :
         /\ cursor' = k
         /\ df' = [df EXCEPT !.rows =
                      Append(@, [c \in df.columns |-> SheetRow(script, k)[c]])]
    /\ UNCHANGED <<script, pc, df_clean, population, op, out>>

\* The file is not there.  load_data prints the error and returns None and
\* the caller returns without a further step; analyze_per_capita, which
\* reads the file at module level, calls exit() instead.
LoadFailed ==
    /\ pc = 0
    /\ script /= "main"
    /\ df = None
    /\ out.kind = "none"
    /\ out' = IF script = "analyze_per_capita" THEN SystemExit ELSE Returned
    /\ op' = "load_data"
    /\ UNCHANGED <<script, pc, cursor, df, df_clean, population>>

\* import statements of main.py, in order
MainImports ==
    <<"create_mini_dataset", "analyze", "analyze_per_capita", "success_rate_analysis",
      "seasonal_patterns", "deadliest_attacks", "group_analysis", "target_vulnerability",
      "decade_comparison", "kazakhstan_rankings", "kazakhstan_details">>

\* the run_analysis calls of main(), in order
MainCalls ==
    <<"analyze", "analyze_per_capita", "success_rate_analysis", "seasonal_patterns",
      "deadliest_attacks", "group_analysis", "target_vulnerability",
      "decade_comparison", "kazakhstan_rankings", "kazakhstan_details">>

\* the modules of the repository
Modules ==
    {"analysis", "analyze", "analyze_per_capita", "create_mini_dataset",
     "deadliest_attacks", "decade_comparison", "group_analysis", "kazakhstan_details",
     "kazakhstan_rankings", "main", "rank_per_capita", "seasonal_patterns",
     "success_rate_analysis"}

\* the modules that define run_analysis
WithRunAnalysis ==
    {"analysis", "analyze", "decade_comparison", "kazakhstan_details",
     "kazakhstan_rankings", "seasonal_patterns", "success_rate_analysis"}

\* the modules whose analysis is module-level code, run by the import
ImportTimeScripts == {"analyze_per_capita"}

\* the analyses run so far under main.py
Ran == IF "ran" \in DOMAIN out THEN out.ran ELSE <<>>

\* python main.py, one statement at a time: the imports, then the calls of
\* main().  An import of a module that does not exist raises
\* ModuleNotFoundError, a call of a function the module lacks raises
\* AttributeError, and exit() in imported module-level code ends the run.
MainStep ==
    /\ script = "main"
    /\ out.kind \in {"none", "main"}
    /\ pc < Len(MainImports) + Len(MainCalls)
    /\ IF pc < Len(MainImports)
       THEN LET m == MainImports[pc + 1]
            IN  /\ op' = "import"
                /\ out' = IF m \notin Modules
                          THEN [kind |-> "error", error |-> "ModuleNotFoundError", ran |-> Ran]
                          ELSE IF m \notin ImportTimeScripts
                          THEN [kind |-> "main", ran |-> Ran]
                          ELSE IF df = None
                          THEN [kind |-> "exit", ran |-> Ran]
                          ELSE [kind |-> "main", ran |-> Append(Ran, m)]
       ELSE LET m == MainCalls[pc + 1 - Len(MainImports)]
            IN  /\ op' = "call"
                /\ out' = IF m \in WithRunAnalysis
                          THEN [kind |-> "main", ran |-> Append(Ran, m)]
                          ELSE [kind |-> "error", error |-> "AttributeError", ran |-> Ran]
    /\ pc' = pc + 1
    /\ UNCHANGED <<script, cursor, df, df_clean, population>>

\* df = prepare_data(df) in deadliest_attacks: the rename and the column
\* assignments act on the caller's table, which is also the value returned.
PrepareDeadliest ==
    /\ Ready("deadliest_attacks", "prepare_data")
    /\ pc' = pc + 1
    /\ op' = "prepare_data"
    /\ IF {"nkill", "nwound"} \subseteq df.columns
       THEN /\ df' = prepare_data_deadliest(df)
            /\ df_clean' = prepare_data_deadliest(df)
            /\ out' = out
       ELSE /\ df' = prepare_data_deadliest_raised(df)
            /\ df_clean' = df_clean
            /\ out' = KeyError
    /\ UNCHANGED <<script, cursor, population>>

\* deadliest_attacks.plot_deadliest_by_region
RegionStats(t) ==
    [k \in GroupKeys(t.rows, "Region") |->
       LET I == Members(t.rows, "Region", k)
           ak == AggMean2(t.rows, I, "Killed")
           aw == AggMean2(t.rows, I, "Wounded")
       IN  [Total_Killed   |-> AggSum(t.rows, I, "Killed"),
            Avg_Killed     |-> ak,
            Total_Wounded  |-> AggSum(t.rows, I, "Wounded"),
            Avg_Wounded    |-> aw,
            Total_Attacks  |-> AggCount(t.rows, I, "Year"),
            Avg_Casualties |-> ak + aw]]

DeadliestTopN == 20

\* the columns analyze_deadliest_attacks lists, of those a sheet row carries
ListedColumns == {"Year", "Country", "Group", "AttackType", "Killed", "Wounded"}

\* the records of a table in its order, by their eventid
RecordIds(t) == [i \in DOMAIN t.rows |-> t.rows[i]["eventid"]]

\* Killed of the record with the given eventid
KilledOf(t) ==
    [e \in Range(RecordIds(t)) |->
       LET i == CHOOSE j \in DOMAIN t.rows : t.rows[j]["eventid"] = e
       IN  t.rows[i]["Killed"]]

\* df.nlargest(top_n, "Killed"): the listings the call may return
DeadliestListings(t, top_n) == NLargest(RecordIds(t), KilledOf(t), top_n)

\* deadliest_attacks.analyze_deadliest_attacks: the top_n records by Killed,
\* then the listed columns; a listed column the table lacks is a KeyError
AnalyzeDeadliestAttacks ==
    /\ Ready("deadliest_attacks", "analyze_deadliest_attacks")
    /\ IF ListedColumns \subseteq df_clean.columns
       THEN \E top_n \in {1, 2, DeadliestTopN} :
              \E deadliest \in DeadliestListings(df_clean, top_n) :
                 out' = [kind |-> "listing", order |-> deadliest, n |-> top_n]
       ELSE out' = KeyError
    /\ op' = "analyze_deadliest_attacks"
    /\ pc' = pc + 1
    /\ UNCHANGED <<script, cursor, df, df_clean, population>>

PlotDeadliestByRegion ==
    /\ Ready("deadliest_attacks", "plot_deadliest_by_region")
    /\ LET stats == RegionStats(df_clean)
       IN  \E order \in DescOrders(DOMAIN stats,
                                   [k \in DOMAIN stats |-> stats[k].Avg_Casualties]) :
             out' = [kind |-> "agg", table |-> stats, order |-> order]
    /\ op' = "plot_deadliest_by_region"
    /\ pc' = pc + 1
    /\ UNCHANGED <<script, cursor, df, df_clean, population>>

\* df[df["Group"] != "Unknown"]
Known(t) ==
    LET IsKnown(row) == row["Group"] /= "Unknown"
    IN  [t EXCEPT !.rows = SelectSeq(@, IsKnown)]

\* deadliest_attacks.plot_deadliest_groups, up to the nlargest call
DeadliestGroupStats(t) ==
    LET known == Known(t)
    IN  [k \in GroupKeys(known.rows, "Group") |->
           LET I  == Members(known.rows, "Group", k)
               tk == AggSum(known.rows, I, "Killed")
               tw == AggSum(known.rows, I, "Wounded")
           IN  [Total_Killed     |-> tk,
                Total_Wounded    |-> tw,
                Total_Attacks    |-> AggCount(known.rows, I, "Year"),
                Total_Casualties |-> tk + tw]]

TopNChoices == {1, 2, 15}

PlotDeadliestGroups ==
    /\ Ready("deadliest_attacks", "plot_deadliest_groups")
    /\ IF "Group" \in df_clean.columns
       THEN \E top_n \in TopNChoices :
              LET stats == DeadliestGroupStats(df_clean)
              IN  \E top \in NLargest(SortKeys(DOMAIN stats),
                                       [k \in DOMAIN stats |-> stats[k].Total_Killed],
                                       top_n) :
                    out' = [kind |-> "topn", table |-> stats, order |-> top, n |-> top_n]
       ELSE out' = KeyError
    /\ op' = "plot_deadliest_groups"
    /\ pc' = pc + 1
    /\ UNCHANGED <<script, cursor, df, df_clean, population>>

\* mean(): the sum over the number of values; den = 0 stands for NaN
AggMean(rows, I, c) == Frac(AggSum(rows, I, c), AggCount(rows, I, c))

\* deadliest_attacks.analyze_lethality_trends, the yearly table
YearlyStats(t) ==
    [k \in GroupKeys(t.rows, "Year") |->
       LET I == Members(t.rows, "Year", k)
       IN  [Total_Killed  |-> AggSum(t.rows, I, "Killed"),
            Avg_Killed    |-> AggMean(t.rows, I, "Killed"),
            Total_Wounded |-> AggSum(t.rows, I, "Wounded"),
            Avg_Wounded   |-> AggMean(t.rows, I, "Wounded"),
            Attacks       |-> AggCount(t.rows, I, "Country")]]

AnalyzeLethalityTrends ==
    /\ Ready("deadliest_attacks", "analyze_lethality_trends")
    /\ out' = [kind |-> "agg", table |-> YearlyStats(df_clean)]
    /\ op' = "analyze_lethality_trends"
    /\ pc' = pc + 1
    /\ UNCHANGED <<script, cursor, df, df_clean, population>>

\* df_clean = prepare_data(df) in decade_comparison: the same table object.
PrepareDecade ==
    /\ Ready("decade_comparison", "prepare_data")
    /\ pc' = pc + 1
    /\ df' = prepare_data_decade(df)
    /\ df_clean' = prepare_data_decade(df)
    /\ op' = "prepare_data"
    /\ UNCHANGED <<script, cursor, population, out>>

\* decade_comparison.analyze_decade_overview
DecadeStats(t) ==
    [k \in GroupKeys(t.rows, "Decade_Label") |->
       LET I == Members(t.rows, "Decade_Label", k)
           attacks == AggCount(t.rows, I, "Year")
           killed  == AggSum(t.rows, I, "Killed")
       IN  [Attacks               |-> attacks,
            Killed                |-> killed,
            Wounded               |-> AggSum(t.rows, I, "Wounded"),
            Countries_Affected    |-> AggNUnique(t.rows, I, "Country"),
            Active_Groups         |-> AggNUnique(t.rows, I, "Group"),
            Avg_Killed_Per_Attack |-> Div2(killed, attacks)]]

AnalyzeDecadeOverview ==
    /\ Ready("decade_comparison", "analyze_decade_overview")
    /\ out' = [kind |-> "agg", table |-> DecadeStats(df_clean)]
    /\ op' = "analyze_decade_overview"
    /\ pc' = pc + 1
    /\ UNCHANGED <<script, cursor, df, df_clean, population>>

\* decade_comparison.analyze_attack_type_evolution
AnalyzeAttackTypeEvolution ==
    /\ Ready("decade_comparison", "analyze_attack_type_evolution")
    /\ out' = [kind |-> "crosstab",
               table |-> NormalizeIndex(CrossTab(df_clean.rows, "Decade_Label", "AttackType"))]
    /\ op' = "analyze_attack_type_evolution"
    /\ pc' = pc + 1
    /\ UNCHANGED <<script, cursor, df, df_clean, population>>

TopRegions == 6
TopTargets == 8

\* the regions cut before the cross-tab is built, to set against C5
RegionalShift_RestrictFirst(t, top_regions) ==
    LET region_decade ==
          NormalizeIndex(CrossTab(IsIn(t, "Region", top_regions).rows, "Decade_Label", "Region"))
    IN  [kind |-> "crosstab", columns |-> top_regions,
         normalised |-> region_decade, table |-> region_decade]

\* decade_comparison.analyze_regional_shift: the cross-tab is built and
\* normalised over all regions, then cut to the columns of the top regions.
RegionalShift(t, top_regions) ==
    LET region_decade == NormalizeIndex(CrossTab(t.rows, "Decade_Label", "Region"))
    IN  IF top_regions \subseteq TableColumns(region_decade)
        THEN [kind |-> "crosstab", columns |-> top_regions,
              normalised |-> region_decade,
              table |-> SelectColumns(region_decade, top_regions)]
        ELSE KeyError

AnalyzeRegionalShift ==
    /\ Ready("decade_comparison", "analyze_regional_shift")
    /\ \E top_regions \in TopKSets(ValueCounts(df_clean.rows, "Region"), TopRegions) :
         out' = RegionalShift(df_clean, top_regions)
    /\ op' = "analyze_regional_shift"
    /\ pc' = pc + 1
    /\ UNCHANGED <<script, cursor, df, df_clean, population>>

\* decade_comparison.analyze_target_evolution: the rows are cut to the top
\* target types first, then the cross-tab is built and normalised.
TargetEvolution(t, top_targets) ==
    LET df_top == IsIn(t, "Target_type", top_targets)
        target_decade == NormalizeIndex(CrossTab(df_top.rows, "Decade_Label", "Target_type"))
    IN  [kind |-> "crosstab", columns |-> top_targets \cap TableColumns(target_decade),
         table |-> target_decade]

AnalyzeTargetEvolution ==
    /\ Ready("decade_comparison", "analyze_target_evolution")
    /\ \E top_targets \in TopKSets(ValueCounts(df_clean.rows, "Target_type"), TopTargets) :
         out' = TargetEvolution(df_clean, top_targets)
    /\ op' = "analyze_target_evolution"
    /\ pc' = pc + 1
    /\ UNCHANGED <<script, cursor, df, df_clean, population>>

\* kazakhstan_rankings.run_analysis: df.rename(..., inplace=True)
RenameKazakhstan ==
    /\ Ready("kazakhstan_rankings", "rename")
    /\ pc' = pc + 1
    /\ df' = Rename(df, RenameWithCity)
    /\ df_clean' = Rename(df, RenameWithCity)
    /\ UNCHANGED <<script, cursor, population, op, out>>

\* the column assignments of the "Casualties" branch, made on the caller's table
WithCasualties(t) ==
    Assign(Assign(Assign(t, "Killed"),
                  "Wounded"),
           "Casualties")

CasualtiesByCountry(t) ==
    [k \in GroupKeys(t.rows, "Country") |->
       AggSum(t.rows, Members(t.rows, "Country", k), "Casualties")]

\* an else branch that ranks by attacks, to set against C23
MetricBranch_DefaultAttacks(metric) ==
    IF metric = "Casualties" THEN "Casualties" ELSE "Attacks"

\* the branch of if metric == "Attacks" / elif metric == "Casualties" / else
MetricBranch(metric) ==
    CASE metric = "Attacks" -> "Attacks"
      [] metric = "Casualties" -> "Casualties"
      [] OTHER -> "else"

\* kazakhstan_rankings.rank_countries_by_metric
RankCountriesByMetric ==
    /\ Ready("kazakhstan_rankings", "rank_countries_by_metric")
    /\ \E metric \in {"Attacks", "Casualties", "Deaths"}, ascending \in BOOLEAN :
         CASE MetricBranch(metric) = "Attacks" ->
                LET counts == ValueCounts(df_clean.rows, "Country")
                IN  /\ \E order \in DescOrders(DOMAIN counts, counts) :
                         out' = [kind |-> "ranking", metric |-> metric,
                                 ascending |-> ascending,
                                 table |-> counts, order |-> order]
                    /\ UNCHANGED <<df, df_clean>>
           [] MetricBranch(metric) = "Casualties" ->
                LET t == WithCasualties(df_clean)
                    sums == CasualtiesByCountry(t)
                IN  /\ \E order \in SortOrders(DOMAIN sums, sums, ascending) :
                         out' = [kind |-> "ranking", metric |-> metric,
                                 ascending |-> ascending,
                                 table |-> sums, order |-> order]
                    /\ df' = t
                    /\ df_clean' = t
           [] OTHER ->
                /\ out' = None
                /\ UNCHANGED <<df, df_clean>>
    /\ op' = "rank_countries_by_metric"
    /\ pc' = pc + 1
    /\ UNCHANGED <<script, cursor, population>>

\* df = prepare_data(df) in group_analysis
PrepareGroup ==
    /\ Ready("group_analysis", "prepare_data")
    /\ pc' = pc + 1
    /\ df' = prepare_data_group(df)
    /\ df_clean' = prepare_data_group(df)
    /\ op' = "prepare_data"
    /\ UNCHANGED <<script, cursor, population, out>>

\* group_analysis.analyze_most_active_groups, up to the nlargest call
ActiveGroupStats(t) ==
    LET known == Known(t)
    IN  [k \in GroupKeys(known.rows, "Group") |->
           LET I       == Members(known.rows, "Group", k)
               attacks == AggCount(known.rows, I, "Year")
               first   == AggMin(known.rows, I, "Year")
               last    == AggMax(known.rows, I, "Year")
               active  == IF first = NaN THEN NaN ELSE last - first + 1
           IN  [Attacks          |-> attacks,
                First_Year       |-> first,
                Last_Year        |-> last,
                Killed           |-> AggSum(known.rows, I, "Killed"),
                Wounded          |-> AggSum(known.rows, I, "Wounded"),
                Countries        |-> AggNUnique(known.rows, I, "Country"),
                Active_Years     |-> active,
                Attacks_Per_Year |-> IF active = NaN THEN NaN ELSE Round1(attacks, active)]]

AnalyzeMostActiveGroups ==
    /\ Ready("group_analysis", "analyze_most_active_groups")
    /\ \E top_n \in TopNChoices :
         LET stats == ActiveGroupStats(df_clean)
         IN  \E top \in NLargest(SortKeys(DOMAIN stats),
                                  [k \in DOMAIN stats |-> stats[k].Attacks],
                                  top_n) :
               out' = [kind |-> "topn", table |-> stats, order |-> top, n |-> top_n]
    /\ op' = "analyze_most_active_groups"
    /\ pc' = pc + 1
    /\ UNCHANGED <<script, cursor, df, df_clean, population>>

TopGroups == 10

\* group_analysis.analyze_group_activity_timeline with groups=None: a top
\* group is plotted only if it is a column of the cross-tab.
GroupActivityTimeline(t, groups) ==
    LET df_top == IsIn(t, "Group", groups)
        yearly_activity == CrossTab(df_top.rows, "Year", "Group")
    IN  [kind |-> "crosstab", requested |-> groups,
         columns |-> groups \cap TableColumns(yearly_activity),
         table |-> yearly_activity]

AnalyzeGroupActivityTimeline ==
    /\ Ready("group_analysis", "analyze_group_activity_timeline")
    /\ \E groups \in TopKSets(ValueCounts(Known(df_clean).rows, "Group"), TopGroups) :
         out' = GroupActivityTimeline(Known(df_clean), groups)
    /\ op' = "analyze_group_activity_timeline"
    /\ pc' = pc + 1
    /\ UNCHANGED <<script, cursor, df, df_clean, population>>

\* group_analysis.analyze_group_targets: the rows are cut to the top groups
\* and the top target types first, then the cross-tab is built and normalised.
GroupTargets(t, top_groups, top_targets) ==
    LET df_filtered == IsIn(IsIn(t, "Group", top_groups), "Target_type", top_targets)
        target_pivot == NormalizeIndex(CrossTab(df_filtered.rows, "Group", "Target_type"))
    IN  [kind |-> "crosstab", groups |-> top_groups, columns |-> top_targets,
         table |-> target_pivot]

AnalyzeGroupTargets ==
    /\ Ready("group_analysis", "analyze_group_targets")
    /\ \E top_n \in TopNChoices :
         \E top_groups \in TopKSets(ValueCounts(Known(df_clean).rows, "Group"), top_n),
            top_targets \in TopKSets(ValueCounts(Known(df_clean).rows, "Target_type"), TopTargets) :
           out' = GroupTargets(Known(df_clean), top_groups, top_targets)
    /\ op' = "analyze_group_targets"
    /\ pc' = pc + 1
    /\ UNCHANGED <<script, cursor, df, df_clean, population>>

SignificantAttacks == 100

\* group_analysis.analyze_group_geographic_spread, up to the nlargest call
GroupGeo(t) ==
    LET known == Known(t)
        stats == [k \in GroupKeys(known.rows, "Group") |->
                    LET I == Members(known.rows, "Group", k)
                    IN  [Countries |-> AggNUnique(known.rows, I, "Country"),
                         Regions   |-> AggNUnique(known.rows, I, "Region"),
                         Attacks   |-> AggCount(known.rows, I, "Year")]]
    IN  [k \in {g \in DOMAIN stats : stats[g].Attacks >= SignificantAttacks} |-> stats[k]]

AnalyzeGroupGeographicSpread ==
    /\ Ready("group_analysis", "analyze_group_geographic_spread")
    /\ \E top_n \in TopNChoices :
         LET group_geo == GroupGeo(df_clean)
         IN  \E top \in NLargest(SortKeys(DOMAIN group_geo),
                                  [k \in DOMAIN group_geo |-> group_geo[k].Countries],
                                  top_n) :
               out' = [kind |-> "topn", table |-> group_geo, order |-> top, n |-> top_n]
    /\ op' = "analyze_group_geographic_spread"
    /\ pc' = pc + 1
    /\ UNCHANGED <<script, cursor, df, df_clean, population>>

\* the columns analyze_kazakhstan_data reads of the records of Kazakhstan
KazakhstanColumns == <<"AttackType", "Target_type", "city">>

\* kazakhstan_rankings.analyze_kazakhstan_data: nothing is counted when no
\* record is of Kazakhstan; otherwise the three columns are counted in turn
\* and a name that is not a column is a KeyError
AnalyzeKazakhstanData ==
    /\ Ready("kazakhstan_rankings", "analyze_kazakhstan_data")
    /\ LET kaz_df == IsIn(df_clean, "Country", {"Kazakhstan"})
       IN  out' = IF kaz_df.rows = <<>> THEN None
                  ELSE IF Range(KazakhstanColumns) \subseteq kaz_df.columns
                  THEN [kind |-> "counts",
                        counts |-> [c \in Range(KazakhstanColumns) |->
                                      ValueCounts(kaz_df.rows, c)]]
                  ELSE KeyError
    /\ op' = "analyze_kazakhstan_data"
    /\ pc' = pc + 1
    /\ UNCHANGED <<script, cursor, df, df_clean, population>>

\* group_analysis.analyze_central_asia_groups, up to the sort
CentralAsiaStats(ca_df) ==
    [k \in GroupKeys(ca_df.rows, "Group") |->
       LET I == Members(ca_df.rows, "Group", k)
       IN  [Attacks    |-> AggCount(ca_df.rows, I, "Year"),
            First_Year |-> AggMin(ca_df.rows, I, "Year"),
            Last_Year  |-> AggMax(ca_df.rows, I, "Year"),
            Killed     |-> AggSum(ca_df.rows, I, "Killed"),
            Countries  |-> AggNUnique(ca_df.rows, I, "Country")]]

\* an empty selection is reported and the function returns; otherwise the
\* groups are sorted by their attacks
AnalyzeCentralAsiaGroups ==
    /\ Ready("group_analysis", "analyze_central_asia_groups")
    /\ LET ca_df == Known(IsIn(df_clean, "Region", {"Central Asia"}))
       IN  IF ca_df.rows = <<>>
           THEN out' = None
           ELSE LET group_stats == CentralAsiaStats(ca_df)
                IN  \E order \in DescOrders(DOMAIN group_stats,
                                            [k \in DOMAIN group_stats |-> group_stats[k].Attacks]) :
                      out' = [kind |-> "agg", table |-> group_stats, order |-> order]
    /\ op' = "analyze_central_asia_groups"
    /\ pc' = pc + 1
    /\ UNCHANGED <<script, cursor, df, df_clean, population>>

\* success_rate_analysis.prepare_data: a rename in place, nothing else
prepare_data_success(t) == Rename(t, RenameWithSuccess)

\* df_clean = prepare_data(df) in success_rate_analysis: the same table object
PrepareSuccess ==
    /\ Ready("success_rate_analysis", "prepare_data")
    /\ pc' = pc + 1
    /\ df' = prepare_data_success(df)
    /\ df_clean' = prepare_data_success(df)
    /\ op' = "prepare_data"
    /\ UNCHANGED <<script, cursor, population, out>>

\* success_rate_analysis.analyze_top_groups_success, up to the nlargest call;
\* the mean of a group without a success value is NaN
GroupSuccess(t, min_attacks) ==
    LET known == Known(t)
        stats == [k \in GroupKeys(known.rows, "Group") |->
                    LET I == Members(known.rows, "Group", k)
                    IN  [Successful   |-> AggSum(known.rows, I, "Success"),
                         Total        |-> AggCount(known.rows, I, "Success"),
                         Success_Rate |-> Frac(AggSum(known.rows, I, "Success"),
                                               AggCount(known.rows, I, "Success"))]]
    IN  [k \in {g \in DOMAIN stats : stats[g].Total >= min_attacks} |-> stats[k]]

MinAttacksChoices == {1, 2, 50}

LargestGroups == 20

\* the place of each key's success rate among the rates of the listed keys
SuccessRank(table, keys) ==
    [k \in keys |->
       Cardinality({j \in keys : FracLess(table[j].Success_Rate, table[k].Success_Rate)})]

AnalyzeTopGroupsSuccess ==
    /\ Ready("success_rate_analysis", "analyze_top_groups_success")
    /\ IF "Group" \in df_clean.columns
       THEN \E min_attacks \in MinAttacksChoices :
              LET group_stats == GroupSuccess(df_clean, min_attacks)
              IN  \E top \in NLargest(SortKeys(DOMAIN group_stats),
                                       [k \in DOMAIN group_stats |-> group_stats[k].Total],
                                       LargestGroups) :
                    \E sorted \in SortOrders(Range(top),
                                             SuccessRank(group_stats, Range(top)), TRUE) :
                      out' = [kind |-> "topn", table |-> group_stats, order |-> top,
                              n |-> LargestGroups, min_attacks |-> min_attacks,
                              sorted |-> sorted]
       ELSE out' = KeyError
    /\ op' = "analyze_top_groups_success"
    /\ pc' = pc + 1
    /\ UNCHANGED <<script, cursor, df, df_clean, population>>

\* df_clean = prepare_data(df) in seasonal_patterns: the caller's table is
\* renamed and coerced; the returned table is the filtered copy.
PrepareSeasonal ==
    /\ Ready("seasonal_patterns", "prepare_data")
    /\ pc' = pc + 1
    /\ df' = prepare_data_seasonal_inplace(df)
    /\ df_clean' = prepare_data_seasonal(df)
    /\ op' = "prepare_data"
    /\ UNCHANGED <<script, cursor, population, out>>

season_order == {"Winter", "Spring", "Summer", "Autumn"}

\* seasonal_patterns.analyze_seasonal_patterns: groupby("Season").agg(...)
\* reindexed by season_order; a season no record has is a row of NaN
SeasonalStats(t) ==
    [k \in season_order |->
       IF k \in GroupKeys(t.rows, "Season")
       THEN LET I == Members(t.rows, "Season", k)
            IN  [Attacks |-> AggCount(t.rows, I, "Year"),
                 Killed  |-> AggSum(t.rows, I, "Killed"),
                 Wounded |-> AggSum(t.rows, I, "Wounded")]
       ELSE [Attacks |-> NaN, Killed |-> NaN, Wounded |-> NaN]]

AnalyzeSeasonalPatterns ==
    /\ Ready("seasonal_patterns", "analyze_seasonal_patterns")
    /\ out' = [kind |-> "seasonal", table |-> SeasonalStats(df_clean)]
    /\ op' = "analyze_seasonal_patterns"
    /\ pc' = pc + 1
    /\ UNCHANGED <<script, cursor, df, df_clean, population>>

\* seasonal_patterns.analyze_regional_seasonal_patterns
RegionalSeasonalPatterns(t, top_regions) ==
    LET df_top == IsIn(t, "Region", top_regions)
        counts == CrossTab(df_top.rows, "Region", "Season")
    IN  IF season_order \subseteq TableColumns(counts)
        THEN [kind |-> "crosstab", columns |-> season_order,
              table |-> DivByRowSum(SelectColumns(counts, season_order))]
        ELSE KeyError

AnalyzeRegionalSeasonalPatterns ==
    /\ Ready("seasonal_patterns", "analyze_regional_seasonal_patterns")
    /\ \E top_regions \in TopKSets(ValueCounts(df_clean.rows, "Region"), TopRegions) :
         out' = RegionalSeasonalPatterns(df_clean, top_regions)
    /\ op' = "analyze_regional_seasonal_patterns"
    /\ pc' = pc + 1
    /\ UNCHANGED <<script, cursor, df, df_clean, population>>

\* CountryInfo(name).population() inside try/except: None for a name the
\* source does not know.
CountryInfoPopulation(name) ==
    IF name \in DOMAIN population THEN population[name] ELSE NaN

WestBankPopulation == 5044000

\* a lookup by the name as it is, to set against C8
get_population_exact(country_name) == CountryInfoPopulation(country_name)

\* rank_per_capita.get_population
get_population(country_name) ==
    IF country_name = "Russia" THEN CountryInfoPopulation("Russian Federation")
    ELSE IF country_name = "South Korea" THEN CountryInfoPopulation("Korea, Republic of")
    ELSE IF country_name = "West Bank and Gaza Strip" THEN WestBankPopulation
    ELSE CountryInfoPopulation(country_name)

PerMillion == 1000000

\* count / population without the scale, to set against C7
AttacksPerCapita_Unscaled(count, pop) ==
    IF pop = NaN THEN Frac(0, 0)
    ELSE LET g == GCD(count, pop) IN Frac(count \div g, pop \div g)

\* (count / population) * 1000000 as a fraction in lowest terms; NaN when
\* the population is missing
AttacksPerCapita(count, pop) ==
    IF pop = NaN THEN Frac(0, 0)
    ELSE LET g == GCD(count * PerMillion, pop)
         IN  Frac((count * PerMillion) \div g, pop \div g)

\* The position of each key's rate among the rates, for sorting.
RateRank(table) ==
    [k \in DOMAIN table |->
       Cardinality({j \in DOMAIN table :
                      FracLess(table[j].AttacksPerCapita, table[k].AttacksPerCapita)})]

\* gtd_df.rename(columns={'country_txt': 'Country'}, inplace=True)
RenameRankPerCapita ==
    /\ Ready("rank_per_capita", "rename")
    /\ pc' = pc + 1
    /\ df' = Rename(df, [country_txt |-> "Country"])
    /\ df_clean' = Rename(df, [country_txt |-> "Country"])
    /\ UNCHANGED <<script, cursor, population, op, out>>

\* attacks_by_country['Population'] = ...apply(get_population)
WithPopulationColumn(counts) ==
    [k \in DOMAIN counts |-> [AttackCount |-> counts[k], Population |-> get_population(k)]]

\* a table that keeps every row, to set against C6
DropMissingPopulation_KeepAll(table) == table

\* attacks_by_country.dropna(subset=['Population'], inplace=True)
DropMissingPopulation(table) ==
    [k \in {j \in DOMAIN table : table[j].Population /= NaN} |-> table[k]]

\* attacks_by_country['AttacksPerCapita'] = (AttackCount / Population) * 1000000
WithRate(table) ==
    [k \in DOMAIN table |->
       [AttackCount      |-> table[k].AttackCount,
        Population       |-> table[k].Population,
        AttacksPerCapita |-> AttacksPerCapita(table[k].AttackCount, table[k].Population)]]

\* rank_per_capita.rank_by_attacks_per_capita, before the final sort
PerCapitaTable(counts) == WithRate(DropMissingPopulation(WithPopulationColumn(counts)))

HeadRows == 20

\* The keys of a column in the order of their first row.
AppearanceOrder(rows, c) ==
    LET keys == GroupKeys(rows, c)
    IN  CHOOSE seq \in DescOrders(keys, [k \in keys |-> 0 - Min(Members(rows, c, k))]) : TRUE

\* The row order of value_counts(): descending counts; among equal counts
\* the order is the sort's to choose, taken here as the order of first
\* appearance or the order of the keys.
ValueCountsOrders(rows, c) ==
    {StableDesc(AppearanceOrder(rows, c), ValueCounts(rows, c)),
     StableDesc(SortKeys(GroupKeys(rows, c)), ValueCounts(rows, c))}

\* The index labels of the ranked table: reset_index() numbers the rows of
\* value_counts() from 0, and dropna and sort_values keep each row's label.
IndexLabels(ranked, counted) ==
    [i \in DOMAIN ranked |-> (CHOOSE j \in DOMAIN counted : counted[j] = ranked[i]) - 1]

RankByAttacksPerCapita ==
    /\ Ready("rank_per_capita", "rank_by_attacks_per_capita")
    /\ LET attacks_by_country == PerCapitaTable(ValueCounts(df_clean.rows, "Country"))
       IN  \E ranked \in DescOrders(DOMAIN attacks_by_country, RateRank(attacks_by_country)),
              counted \in ValueCountsOrders(df_clean.rows, "Country") :
             out' = [kind |-> "ranking", counts |-> ValueCounts(df_clean.rows, "Country"),
                     table |-> attacks_by_country, order |-> ranked,
                     index |-> IndexLabels(ranked, counted),
                     head |-> FirstN(ranked, HeadRows)]
    /\ op' = "rank_by_attacks_per_capita"
    /\ pc' = pc + 1
    /\ UNCHANGED <<script, cursor, df, df_clean, population>>

\* the label itself taken for the position, to set against C12
GetLoc_Label(index, label) == label

\* Index.get_loc(label): the 0-based position of a label of a unique index
GetLoc(index, label) == (CHOOSE i \in DOMAIN index : index[i] = label) - 1

NotFound == [found |-> FALSE]

\* a rank whatever the table holds, to set against C13
KazakhstanRank_Unchecked(ranked, index) ==
    [found |-> TRUE, rank |-> Len(ranked) + 1]

\* rank_per_capita.__main__: the rows of Kazakhstan, and the position of the
\* first one's label in the index of the sorted table, plus one
KazakhstanRank(ranked, index) ==
    LET kaz_rank == {i \in DOMAIN ranked : ranked[i] = "Kazakhstan"}
    IN  IF kaz_rank = {} THEN NotFound
        ELSE [found |-> TRUE, rank |-> GetLoc(index, index[Min(kaz_rank)]) + 1]

ReportKazakhstanRank ==
    /\ Ready("rank_per_capita", "kazakhstan_rank")
    /\ out' = [kind |-> "ranking", counts |-> out.counts, table |-> out.table,
               order |-> out.order, index |-> out.index, head |-> out.head,
               kaz_rank |-> KazakhstanRank(out.order, out.index)]
    /\ op' = "kazakhstan_rank"
    /\ pc' = pc + 1
    /\ UNCHANGED <<script, cursor, df, df_clean, population>>

\* df.dropna(subset=[c], inplace=True)
DropNA(t, c) ==
    LET Present(row) == ~IsNull(row, c) IN [t EXCEPT !.rows = SelectSeq(@, Present)]

\* analyze_per_capita, the table left in df once the rows without a country
\* name or without a population are dropped
WithPopulation(t) ==
    DropNA(Assign(DropNA(t, "country_txt"), "population"), "population")

\* analyze_per_capita: size and first population per country, then the rate
AttacksPerMillion(t) ==
    [k \in GroupKeys(t.rows, "country_txt") |->
       LET I   == Members(t.rows, "country_txt", k)
           pop == t.rows[Min(I)]["population"]
       IN  [AttackCount      |-> Cardinality(I),
            Population       |-> pop,
            AttacksPerCapita |-> AttacksPerCapita(Cardinality(I), pop)]]

\* The analyze_per_capita script from the loaded file to the sorted rates.
AnalyzePerCapita ==
    /\ Ready("analyze_per_capita", "module")
    /\ LET attacks_per_million == AttacksPerMillion(WithPopulation(df))
       IN  \E ranked \in DescOrders(DOMAIN attacks_per_million, RateRank(attacks_per_million)) :
             out' = [kind |-> "ranking", counts |-> ValueCounts(df.rows, "country_txt"),
                     table |-> attacks_per_million, order |-> ranked,
                     head |-> FirstN(ranked, HeadRows)]
    /\ df' = WithPopulation(df)
    /\ df_clean' = WithPopulation(df)
    /\ op' = "analyze_per_capita"
    /\ pc' = pc + 1
    /\ UNCHANGED <<script, cursor, population>>

Next ==
    \/ LoadFailed
    \/ MainStep
    \/ ReportKazakhstanRank
    \/ AnalyzeGroupGeographicSpread
    \/ AnalyzeCentralAsiaGroups
    \/ AnalyzeKazakhstanData
    \/ PrepareSuccess
    \/ AnalyzeTopGroupsSuccess
    \/ RenameRankPerCapita
    \/ RankByAttacksPerCapita
    \/ AnalyzePerCapita
    \/ PrepareGroup
    \/ AnalyzeMostActiveGroups
    \/ AnalyzeGroupActivityTimeline
    \/ AnalyzeGroupTargets
    \/ PrepareSeasonal
    \/ AnalyzeSeasonalPatterns
    \/ AnalyzeRegionalSeasonalPatterns
    \/ RenameKazakhstan
    \/ RankCountriesByMetric
    \/ PrepareDecade
    \/ AnalyzeDecadeOverview
    \/ AnalyzeAttackTypeEvolution
    \/ AnalyzeRegionalShift
    \/ AnalyzeTargetEvolution
    \/ LoadRow
    \/ PrepareDeadliest
    \/ AnalyzeDeadliestAttacks
    \/ AnalyzeLethalityTrends
    \/ PlotDeadliestByRegion
    \/ PlotDeadliestGroups

Spec == Init /\ [][Next]_vars

(***************************************************************************)
(* Properties.                                                             *)
(***************************************************************************)
Rows == df_clean.rows

EventIds == [i \in DOMAIN Rows |-> Rows[i]["eventid"]]

\* the cell of a row as it stood in the sheet, before any coercion
RawCell(row, c) == Sheet(script)[row["eventid"]][c]

\* what a raw casualty cell contributes to a total
Contribution(v) == IF v >= 0 THEN v ELSE 0

\* C1: a count metric of a grouped aggregation (Total_Attacks by Region,
\* Attacks by Decade_Label) has one row for the key of every record, each
\* row's count is the number of records with that key, and the counts add up
\* to the number of records of the table, missing values included.
C1_CountsCoverEveryRecord ==
    /\ op = "plot_deadliest_by_region" =>
          /\ \A i \in DOMAIN Rows : Rows[i]["Region"] \in DOMAIN out.table
          /\ \A k \in DOMAIN out.table :
                out.table[k].Total_Attacks = Cardinality({i \in DOMAIN Rows : Rows[i]["Region"] = k})
          /\ SumSet(DOMAIN out.table, [k \in DOMAIN out.table |-> out.table[k].Total_Attacks])
                = Len(Rows)
    /\ op = "analyze_decade_overview" =>
          /\ \A i \in DOMAIN Rows : Rows[i]["Decade_Label"] \in DOMAIN out.table
          /\ \A k \in DOMAIN out.table :
                out.table[k].Attacks = Cardinality({i \in DOMAIN Rows : Rows[i]["Decade_Label"] = k})
          /\ SumSet(DOMAIN out.table, [k \in DOMAIN out.table |-> out.table[k].Attacks])
                = Len(Rows)

\* the sum of a raw casualty column over the records whose field f is k
RawTotal(f, k, c) ==
    LET I == {i \in DOMAIN Rows : Rows[i][f] = k}
    IN  SumSet(I, [i \in I |-> Contribution(RawCell(Rows[i], c))])

\* C2: a sum metric of a group is the sum of the casualty field over exactly
\* the records of the group, a missing or non-numeric value counting as 0;
\* the table [(2001,A,5), (2001,B,0), (2002,A,3)] gives A: 2 attacks, 8
\* killed and B: 1 attack, 0 killed.
C2_SumIsGroupTotal ==
    /\ (op = "plot_deadliest_groups" /\ out.kind = "topn") =>
          /\ \A k \in DOMAIN out.table :
                /\ out.table[k].Total_Killed = RawTotal("Group", k, "nkill")
                /\ out.table[k].Total_Wounded = RawTotal("Group", k, "nwound")
          /\ EventIds = <<1, 2, 3>> =>
                /\ DOMAIN out.table = {"A", "B"}
                /\ out.table["A"].Total_Attacks = 2 /\ out.table["A"].Total_Killed = 8
                /\ out.table["B"].Total_Attacks = 1 /\ out.table["B"].Total_Killed = 0
    /\ op = "plot_deadliest_by_region" =>
          \A k \in DOMAIN out.table :
             /\ out.table[k].Total_Killed = RawTotal("Region", k, "nkill")
             /\ out.table[k].Total_Wounded = RawTotal("Region", k, "nwound")
    /\ op = "analyze_decade_overview" =>
          \A k \in DOMAIN out.table :
             /\ out.table[k].Killed = RawTotal("Decade_Label", k, "nkill")
             /\ out.table[k].Wounded = RawTotal("Decade_Label", k, "nwound")
    /\ (op = "rank_countries_by_metric" /\ out.kind = "ranking" /\ out.metric = "Casualties") =>
          /\ \A k \in DOMAIN out.table :
                out.table[k] = RawTotal("Country", k, "nkill") + RawTotal("Country", k, "nwound")
          /\ EventIds = <<1, 2, 3>> => out.table = [k \in {"A", "B"} |-> IF k = "A" THEN 11 ELSE 0]

\* the example table was aggregated, and a group holds a missing and a
\* non-numeric casualty value
C2_Witness_Example ==
    /\ op = "plot_deadliest_groups"
    /\ out.kind = "topn"
    /\ EventIds = <<1, 2, 3>>
    /\ out.table["A"].Total_Killed = 8

C2_Witness_Coerced ==
    /\ op = "plot_deadliest_groups"
    /\ out.kind = "topn"
    /\ \E i \in DOMAIN Rows :
         /\ RawCell(Rows[i], "nkill") = NotNumeric
         /\ Rows[i]["Group"] \in DOMAIN out.table
         /\ \E j \in DOMAIN Rows :
              Rows[j]["Group"] = Rows[i]["Group"] /\ RawCell(Rows[j], "nkill") > 0

\* the number of records whose field rf is r and whose field cf is c
Pairs(rf, r, cf, c) ==
    Cardinality({i \in DOMAIN Rows : Rows[i][rf] = r /\ Rows[i][cf] = c})

\* the row and column fields of the cross-tab each analysis builds
RowField ==
    CASE op \in {"analyze_group_targets"} -> "Group"
      [] op \in {"analyze_regional_seasonal_patterns"} -> "Region"
      [] op \in {"analyze_group_activity_timeline"} -> "Year"
      [] OTHER -> "Decade_Label"

ColField ==
    CASE op = "analyze_attack_type_evolution" -> "AttackType"
      [] op = "analyze_regional_shift" -> "Region"
      [] op = "analyze_regional_seasonal_patterns" -> "Season"
      [] op = "analyze_group_activity_timeline" -> "Group"
      [] OTHER -> "Target_type"

NormalisingOps ==
    {"analyze_attack_type_evolution", "analyze_regional_shift", "analyze_target_evolution",
     "analyze_group_targets", "analyze_regional_seasonal_patterns"}

\* the cross-tab as it stands right after the row normalisation
Normalised == IF op = "analyze_regional_shift" THEN out.normalised ELSE out.table

\* the records of row r that fall in the columns of a cross-tab
TotalOver(cols, r) == SumSet(cols, [c \in cols |-> Pairs(RowField, r, ColField, c)])

\* 100 * count / total as a cell value
IsShare(cell, count, total) ==
    cell.den /= 0 /\ cell.num * total = 100 * count * cell.den

\* the sum of the cells of row r over cols is 100, total being the row total
SumsTo100(table, r, cols, total) ==
    /\ \A c \in cols : table[r][c].den /= 0
    /\ SumSet(cols, [c \in cols |-> (table[r][c].num * total) \div table[r][c].den])
         = 100 * total

\* C3: in every row-normalised cross-tab a row with a nonzero total holds
\* 100 * count / rowTotal in each cell and its cells sum to 100; a row with
\* a zero total holds 0 in every cell.
C3_RowNormalised ==
    (op \in NormalisingOps /\ out.kind = "crosstab") =>
       \A r \in DOMAIN Normalised :
          LET cols  == DOMAIN Normalised[r]
              total == TotalOver(cols, r)
          IN  /\ total > 0 =>
                   /\ \A c \in cols :
                         IsShare(Normalised[r][c], Pairs(RowField, r, ColField, c), total)
                   /\ SumsTo100(Normalised, r, cols, total)
              /\ total = 0 =>
                   \A c \in cols : Normalised[r][c].num = 0 /\ Normalised[r][c].den /= 0

\* a normalised row spreads over two columns in unequal shares
C3_Witness_SharedRow ==
    /\ op \in NormalisingOps
    /\ out.kind = "crosstab"
    /\ \E r \in DOMAIN Normalised : \E c, d \in DOMAIN Normalised[r] :
         /\ Pairs(RowField, r, ColField, c) = 2
         /\ Pairs(RowField, r, ColField, d) = 1
         /\ Normalised[r][c].num * 3 = 200 * Normalised[r][c].den

\* the cell of an expected column reads as a number, 0 when no record has
\* the pair
ResolvesToCount(table, r, c) ==
    /\ c \in DOMAIN table[r]
    /\ table[r][c] = Pairs(RowField, r, ColField, c)

ResolvesToShare(table, r, c) ==
    /\ c \in DOMAIN table[r]
    /\ table[r][c].den /= 0
    /\ Pairs(RowField, r, ColField, c) = 0 => table[r][c].num = 0

\* C4: reading an expected column of a cross-tab (each of the four seasons,
\* each top region, each top group) never fails for any row, and gives 0
\* when no record has the pair, even when the column value occurs nowhere
\* in the table.
C4_ExpectedColumnsResolve ==
    /\ op = "analyze_regional_seasonal_patterns" =>
          /\ out.kind = "crosstab"
          /\ \A r \in DOMAIN out.table : \A c \in season_order :
                ResolvesToShare(out.table, r, c)
    /\ op = "analyze_regional_shift" =>
          /\ out.kind = "crosstab"
          /\ \A r \in DOMAIN out.table : \A c \in out.columns :
                ResolvesToShare(out.table, r, c)
    /\ op = "analyze_group_activity_timeline" =>
          /\ out.kind = "crosstab"
          /\ \A r \in DOMAIN out.table : \A c \in out.columns :
                ResolvesToCount(out.table, r, c)

RestrictingOps ==
    {"analyze_regional_shift", "analyze_target_evolution", "analyze_group_targets"}

\* C5: in the analyses that keep only the top-K column values (top 6
\* regions, top 8 target types) the restriction precedes the cross-tab and
\* its normalisation, so the retained percentages of each row sum to 100.
C5_RetainedSumTo100 ==
    (op \in RestrictingOps /\ out.kind = "crosstab") =>
       \A r \in DOMAIN out.table :
          SumsTo100(out.table, r, DOMAIN out.table[r], TotalOver(DOMAIN out.table[r], r))

\* all the values of the column field among the records of the row keys
AllColumns(table) ==
    {Rows[i][ColField] : i \in {j \in DOMAIN Rows : Rows[j][RowField] \in DOMAIN table}}
       \ {Null(ColField)}

\* C5 as the code has it: analyze_target_evolution and analyze_group_targets
\* cut the records to the top-K target types before the cross-tab is built,
\* so their rows sum to 100; analyze_regional_shift normalises over every
\* region and then keeps the columns of the top 6 regions, so a retained
\* cell is the region's share of all the decade's attacks of known region
\* and the retained cells of a row sum to at most 100.
C5_RestrictionOrder ==
    /\ (op \in {"analyze_target_evolution", "analyze_group_targets"}
          /\ out.kind = "crosstab") =>
          \A r \in DOMAIN out.table :
             /\ DOMAIN out.table[r] \subseteq out.columns
             /\ SumsTo100(out.table, r, DOMAIN out.table[r],
                          TotalOver(DOMAIN out.table[r], r))
    /\ (op = "analyze_regional_shift" /\ out.kind = "crosstab") =>
          \A r \in DOMAIN out.table :
             LET all == TotalOver(AllColumns(out.table), r)
             IN  /\ DOMAIN out.table[r] = out.columns
                 /\ \A c \in out.columns :
                       IsShare(out.table[r][c], Pairs(RowField, r, ColField, c), all)
                 /\ SumSet(out.columns,
                           [c \in out.columns |-> Pairs(RowField, r, ColField, c)]) <= all

\* a seventh region was cut from a decade after the normalisation
C5_Witness_RegionCut ==
    /\ op = "analyze_regional_shift"
    /\ out.kind = "crosstab"
    /\ Cardinality(out.columns) = TopRegions
    /\ \E r \in DOMAIN out.table :
         TotalOver(out.columns, r) < TotalOver(AllColumns(out.table), r)

PerCapitaOps == {"rank_by_attacks_per_capita", "analyze_per_capita"}

\* the column that holds the country name when the ranking is computed
CountryField == IF script = "rank_per_capita" THEN "Country" ELSE "country_txt"

\* the population each script's lookup gives for a name, NaN when it has none
Lookup(k) ==
    IF script = "rank_per_capita" THEN get_population(k) ELSE CountryInfoPopulation(k)

\* C6: per-capita normalisation outputs no row for a country whose
\* population lookup is absent: such a country is dropped, never given a
\* rate of 0 or infinity; every output country occurs in the input counts
\* and the output has at most as many rows as the input has countries.
C6_AbsentPopulationDropped ==
    op \in PerCapitaOps =>
       /\ \A k \in DOMAIN out.table :
             /\ k \in DOMAIN out.counts
             /\ Lookup(k) /= NaN
             /\ out.table[k].AttacksPerCapita.den /= 0
             /\ out.table[k].AttacksPerCapita.num > 0
       /\ \A k \in DOMAIN out.counts : Lookup(k) = NaN => k \notin Range(out.order)
       /\ Range(out.order) = DOMAIN out.table
       /\ Cardinality(DOMAIN out.table) <= Cardinality(DOMAIN out.counts)

\* a country without a population was dropped while another was kept
C6_Witness_Dropped ==
    /\ op \in PerCapitaOps
    /\ DOMAIN out.table /= {}
    /\ \E k \in DOMAIN out.counts : Lookup(k) = NaN /\ k \notin DOMAIN out.table

\* C7: the rate of every kept country is (records of the country /
\* population of the country) * 1,000,000, here as a fraction in lowest
\* terms; population {A: 2,000,000} and
\* counts {A: 2, B: 1} give exactly {A: count 2, rate 1.0}.
C7_RatePerMillion ==
    op \in PerCapitaOps =>
       /\ \A k \in DOMAIN out.table :
             LET count == Cardinality({i \in DOMAIN Rows : Rows[i][CountryField] = k})
                 rate  == out.table[k].AttacksPerCapita
             IN  /\ out.table[k].AttackCount = count
                 /\ out.table[k].AttackCount = out.counts[k]
                 /\ rate.den > 0
                 /\ rate.num = (count * 1000000) \div GCD(count * 1000000, Lookup(k))
                 /\ rate.den = Lookup(k) \div GCD(count * 1000000, Lookup(k))
       /\ (population = [n \in {"A"} |-> 2000000]
             /\ out.counts = [k \in {"A", "B"} |-> IF k = "A" THEN 2 ELSE 1]) =>
             /\ DOMAIN out.table = {"A"}
             /\ out.table["A"].AttackCount = 2
             /\ out.table["A"].AttacksPerCapita = Frac(1, 1)
             /\ out.order = <<"A">>

\* the example of the claim was normalised
C7_Witness_Example ==
    /\ op = "rank_by_attacks_per_capita"
    /\ population = [n \in {"A"} |-> 2000000]
    /\ out.counts = [k \in {"A", "B"} |-> IF k = "A" THEN 2 ELSE 1]
    /\ out.table["A"].AttacksPerCapita.num = out.table["A"].AttacksPerCapita.den

\* C8: the per-capita join looks a population up by exactly the country
\* name of the counts table: a country is kept if and only if its own name
\* is in the population source, with the population the source holds under
\* that name.
C8_ExactNameLookup ==
    op = "rank_by_attacks_per_capita" =>
       \A k \in DOMAIN out.counts :
          /\ k \in DOMAIN out.table <=> k \in DOMAIN population
          /\ k \in DOMAIN out.table => out.table[k].Population = population[k]

\* the name under which the population source is queried for a country
SourceName(k) ==
    CASE k = "Russia" -> "Russian Federation"
      [] k = "South Korea" -> "Korea, Republic of"
      [] OTHER -> k

\* C8 as the code has it: rank_by_attacks_per_capita hands the exact country
\* name to get_population, which queries the source under "Russian
\* Federation" for "Russia" and under "Korea, Republic of" for "South Korea",
\* and answers 5,044,000 for "West Bank and Gaza Strip" without a query;
\* every other name is looked up as it is, and is absent when the source
\* lacks it.  The analyze_per_capita script looks every name up as it is.
C8_LookupSpecialCases ==
    /\ op = "rank_by_attacks_per_capita" =>
          \A k \in DOMAIN out.counts :
             IF k = "West Bank and Gaza Strip"
             THEN k \in DOMAIN out.table /\ out.table[k].Population = 5044000
             ELSE /\ k \in DOMAIN out.table <=> SourceName(k) \in DOMAIN population
                  /\ k \in DOMAIN out.table =>
                        out.table[k].Population = population[SourceName(k)]
    /\ op = "analyze_per_capita" =>
          \A k \in DOMAIN out.counts :
             /\ k \in DOMAIN out.table <=> k \in DOMAIN population
             /\ k \in DOMAIN out.table => out.table[k].Population = population[k]

\* "Russia" was ranked with the population of "Russian Federation" although
\* the source holds another figure under "Russia"
C8_Witness_Alias ==
    /\ op = "rank_by_attacks_per_capita"
    /\ "Russia" \in DOMAIN out.table
    /\ "Russia" \in DOMAIN population
    /\ out.table["Russia"].Population = population["Russian Federation"]
    /\ out.table["Russia"].Population /= population["Russia"]

TopNOps == {"plot_deadliest_groups", "analyze_most_active_groups"}

\* the ranked keys an operation returned, and the key set it ranked
Ranked == IF op \in PerCapitaOps THEN out.head ELSE out.order

\* the place of each key's metric value among the values of the table
MetricRank ==
    CASE op = "plot_deadliest_groups" ->
           [k \in DOMAIN out.table |-> out.table[k].Total_Killed]
      [] op = "analyze_most_active_groups" ->
           [k \in DOMAIN out.table |-> out.table[k].Attacks]
      [] op \in PerCapitaOps -> RateRank(out.table)
      [] op = "analyze_group_geographic_spread" ->
           [k \in DOMAIN out.table |-> out.table[k].Countries]
      [] op = "analyze_top_groups_success" ->
           [k \in DOMAIN out.table |-> out.table[k].Total]
      [] OTHER -> out.table

RequestedRows == IF op \in TopNOps THEN out.n ELSE 20

\* C9: a top-N result is a prefix of the full descending order: it has
\* min(N, rows) distinct rows, in descending order of the metric, and no
\* row left out has a higher metric value than a row taken.
C9_TopNIsPrefix ==
    (op \in TopNOps \cup PerCapitaOps /\ out.kind \in {"topn", "ranking"}) =>
       /\ Len(Ranked) = Min({RequestedRows, Cardinality(DOMAIN out.table)})
       /\ Range(Ranked) \subseteq DOMAIN out.table
       /\ \A i, j \in DOMAIN Ranked :
             i < j => Ranked[i] /= Ranked[j] /\ MetricRank[Ranked[i]] >= MetricRank[Ranked[j]]
       /\ \A i \in DOMAIN Ranked : \A k \in DOMAIN out.table \ Range(Ranked) :
             MetricRank[Ranked[i]] >= MetricRank[k]

\* a top-N cut left out a row and took the highest, which is not the first
\* key of the table
C9_Witness_Cut ==
    /\ op \in TopNOps
    /\ out.kind = "topn"
    /\ Len(out.order) < Cardinality(DOMAIN out.table)
    /\ out.order[1] /= SortKeys(DOMAIN out.table)[1]
    /\ \E k \in DOMAIN out.table \ Range(out.order) :
         MetricRank[k] < MetricRank[out.order[Len(out.order)]]

\* the place of a key in Python's string order
LexPos(k) == CHOOSE i \in DOMAIN Lexicon : Lexicon[i] = k

RankingOps == TopNOps \cup PerCapitaOps \cup {"rank_countries_by_metric"}

\* C10: rows of equal metric value are ranked by key in lexicographic
\* order in every ranking and top-N selection, so that the result does not
\* vary from run to run; of two tied keys X and Y and n = 1 the result is X.
C10_TiesByKey ==
    /\ (op \in RankingOps /\ out.kind \in {"topn", "ranking"}) =>
          /\ \A i, j \in DOMAIN out.order :
                (i < j /\ MetricRank[out.order[i]] = MetricRank[out.order[j]])
                   => LexPos(out.order[i]) < LexPos(out.order[j])
          /\ \A i \in DOMAIN out.order : \A k \in DOMAIN out.table \ Range(out.order) :
                MetricRank[out.order[i]] = MetricRank[k] => LexPos(out.order[i]) < LexPos(k)
    /\ (op = "analyze_regional_shift" /\ out.kind = "crosstab") =>
          LET counts == ValueCounts(Rows, "Region")
          IN  \A a \in out.columns : \A b \in DOMAIN counts \ out.columns :
                 counts[a] = counts[b] => LexPos(a) < LexPos(b)

AllTopNOps ==
    TopNOps \cup {"analyze_group_geographic_spread", "analyze_top_groups_success"}

\* C11: a top-N request on an aggregate table of fewer than n rows returns
\* all the rows, in ranked order, and raises no error; the result always has
\* min(n, number of rows) rows.
C11_FewerRowsAllReturned ==
    (op \in AllTopNOps /\ "Group" \in df_clean.columns) =>
       /\ out.kind = "topn"
       /\ Len(out.order) = Min({out.n, Cardinality(DOMAIN out.table)})
       /\ Cardinality(DOMAIN out.table) < out.n =>
             /\ Range(out.order) = DOMAIN out.table
             /\ \A i, j \in DOMAIN out.order :
                   i < j => MetricRank[out.order[i]] >= MetricRank[out.order[j]]

\* three groups of unequal size were ranked by a request for twenty
C11_Witness_Short ==
    /\ op = "analyze_top_groups_success"
    /\ out.kind = "topn"
    /\ Cardinality(DOMAIN out.table) = 3
    /\ Len(out.order) = 3
    /\ out.table[out.order[1]].Total > out.table[out.order[3]].Total

\* the rows of the ranked table whose rate is above that of key k
RowsAbove(k) ==
    {j \in DOMAIN out.table :
       FracLess(out.table[k].AttacksPerCapita, out.table[j].AttacksPerCapita)}

\* C12: the rank reported for Kazakhstan is its 1-based position in the
\* full table sorted by descending rate, whatever the top-N listing shows,
\* and where the listing of the first 20 rows reaches that position it shows
\* Kazakhstan there.
C12_RankIsPosition ==
    (op = "kazakhstan_rank" /\ out.kaz_rank.found) =>
       LET rank == out.kaz_rank.rank
       IN  /\ rank \in 1 .. Len(out.order)
           /\ Len(out.order) = Cardinality(DOMAIN out.table)
           /\ out.order[rank] = "Kazakhstan"
           /\ Cardinality(RowsAbove("Kazakhstan")) < rank
           /\ \A i \in 1 .. (rank - 1) :
                 ~FracLess(out.table[out.order[i]].AttacksPerCapita,
                           out.table["Kazakhstan"].AttacksPerCapita)
           /\ rank <= Len(out.head) => out.head[rank] = "Kazakhstan"

\* Kazakhstan stands below the first place, and its row label is not its
\* position
C12_Witness_Ranked ==
    /\ op = "kazakhstan_rank"
    /\ out.kaz_rank.found
    /\ out.kaz_rank.rank >= 2
    /\ \E i \in DOMAIN out.order :
         out.order[i] = "Kazakhstan" /\ out.index[i] /= i - 1

\* C13: a rank query for a country that is not in the ranked table, because
\* the data never had it or because it has no population, gives the
\* not-found outcome, never a number and never an exception.
C13_AbsentNotFound ==
    op = "kazakhstan_rank" =>
       /\ out.kind /= "error"
       /\ "Kazakhstan" \notin DOMAIN out.table => out.kaz_rank = NotFound
       /\ "Kazakhstan" \in DOMAIN out.table => out.kaz_rank.found

\* Kazakhstan is in the data but was dropped for want of a population
C13_Witness_Dropped ==
    /\ op = "kazakhstan_rank"
    /\ "Kazakhstan" \in DOMAIN out.counts
    /\ "Kazakhstan" \notin DOMAIN out.table
    /\ DOMAIN out.table /= {}
    /\ out.kaz_rank = NotFound

\* C14: rank_countries_by_metric returns the countries in descending order
\* of the metric, and in ascending order when ascending is true, for the
\* metric "Attacks" as for the metric "Casualties".
C14_OrderFollowsAscending ==
    (op = "rank_countries_by_metric" /\ out.kind = "ranking") =>
       /\ Range(out.order) = DOMAIN out.table
       /\ \A i, j \in DOMAIN out.order :
             i < j => IF out.ascending
                      THEN out.table[out.order[i]] <= out.table[out.order[j]]
                      ELSE out.table[out.order[i]] >= out.table[out.order[j]]

\* the step in which a script of the set calls prepare_data on a table that
\* has both casualty columns
Prepares(scripts) ==
    /\ script \in scripts
    /\ pc = 0
    /\ pc' = 1
    /\ {"nkill", "nwound"} \subseteq df.columns

\* the prepared table keeps the rows of df, with every casualty value that
\* is missing or not a number turned into 0
CoercedRowByRow ==
    /\ out'.kind /= "error"
    /\ Len(df_clean'.rows) = Len(df.rows)
    /\ \A i \in DOMAIN df.rows :
          /\ df_clean'.rows[i]["eventid"] = df.rows[i]["eventid"]
          /\ df_clean'.rows[i]["Killed"] = Contribution(df.rows[i]["nkill"])
          /\ df_clean'.rows[i]["Wounded"] = Contribution(df.rows[i]["nwound"])

CasualtiesRowByRow ==
    /\ "Casualties" \in df_clean'.columns
    /\ \A i \in DOMAIN df_clean'.rows :
          df_clean'.rows[i]["Casualties"]
             = Contribution(df.rows[i]["nkill"]) + Contribution(df.rows[i]["nwound"])

\* C15: prepare_data of deadliest_attacks, group_analysis and
\* decade_comparison turns every missing or non-numeric Killed/Wounded
\* value into 0 without an error, keeps every row, and sets Casualties =
\* Killed + Wounded on every row.
C15_CoercedWithCasualties ==
    [][Prepares({"deadliest_attacks", "group_analysis", "decade_comparison"})
         => (CoercedRowByRow /\ CasualtiesRowByRow)]_vars

\* C15 as the code has it: the three prepare_data functions coerce Killed
\* and Wounded to numbers with 0 for a missing or non-numeric value, raise
\* no error for such a value and keep every row; deadliest_attacks and
\* group_analysis set Casualties = Killed + Wounded on every row, and
\* decade_comparison adds Decade and Decade_Label and no Casualties column.
C15_CoercedAsCoded ==
    [][/\ Prepares({"deadliest_attacks", "group_analysis", "decade_comparison"})
           => CoercedRowByRow
       /\ Prepares({"deadliest_attacks", "group_analysis"}) => CasualtiesRowByRow
       /\ Prepares({"decade_comparison"})
           => df_clean'.columns = (df_clean'.columns \ {"Casualties"})
                                    \cup {"Killed", "Wounded", "Decade", "Decade_Label"}]_vars

\* decade_comparison prepared a table with a missing casualty value: it
\* reads 0 and the table has no Casualties column
C15_Witness_NoCasualties ==
    /\ script = "decade_comparison"
    /\ pc = 1
    /\ "Casualties" \notin df_clean.columns
    /\ \E i \in DOMAIN Rows :
         RawCell(Rows[i], "nkill") = NaN /\ Rows[i]["Killed"] = 0

\* the season of a calendar month
MonthsOfSeason(season) ==
    CASE season = "Winter" -> {12, 1, 2}
      [] season = "Spring" -> {3, 4, 5}
      [] season = "Summer" -> {6, 7, 8}
      [] season = "Autumn" -> {9, 10, 11}

\* the records of the caller's table with a known month and the season
KnownMonthIn(season) ==
    {i \in DOMAIN df.rows :
        /\ df.rows[i]["Month"] > 0
        /\ \/ df.rows[i]["Month"] \in MonthsOfSeason(season)
           \/ /\ df.rows[i]["Month"] > 12
              /\ season = "Autumn"}

\* C16: a record with Month = 0 is never assigned a season and never
\* contributes to a season-keyed aggregation or cross-tab; every record that
\* does contribute has Month > 0 and one of the four seasons, the one its
\* month determines.
C16_UnknownMonthExcluded ==
    (script = "seasonal_patterns" /\ pc >= 1) =>
       /\ \A i \in DOMAIN Rows :
             /\ RawCell(Rows[i], "imonth") > 0
             /\ Rows[i]["Month"] = RawCell(Rows[i], "imonth")
             /\ Rows[i]["Season"] \in season_order
             /\ \A season \in season_order :
                   Rows[i]["Month"] \in MonthsOfSeason(season)
                      => Rows[i]["Season"] = season
       /\ op = "analyze_seasonal_patterns" =>
             \A season \in season_order :
                LET n == Cardinality({i \in KnownMonthIn(season) : df.rows[i]["Year"] /= NaN})
                IN  out.table[season].Attacks = IF KnownMonthIn(season) = {} THEN NaN ELSE n
       /\ (op = "analyze_regional_seasonal_patterns" /\ out.kind = "crosstab") =>
             \A r \in DOMAIN out.table : \A season \in season_order :
                LET InRegion(I) == Cardinality({i \in I : df.rows[i]["Region"] = r})
                    total == SumSet(season_order,
                                    [k \in season_order |-> InRegion(KnownMonthIn(k))])
                IN  out.table[r][season] = Frac(100 * InRegion(KnownMonthIn(season)), total)

\* a record of month 0 was loaded and the seasons were aggregated without it
C16_Witness_MonthZero ==
    /\ script = "seasonal_patterns"
    /\ op = "analyze_seasonal_patterns"
    /\ \E i \in DOMAIN df.rows : df.rows[i]["Month"] = 0
    /\ \E season \in season_order : out.table[season].Attacks >= 1

\* the prepared rows of decade_comparison that have a year
WithYear == {i \in DOMAIN Rows : RawCell(Rows[i], "iyear") /= NaN}

\* C17: for an integer Year, Decade = floor(Year / 10) * 10: a multiple of
\* 10 with Decade <= Year <= Decade + 9; two records have the same
\* Decade_Label exactly when they have the same Decade.
C17_DecadeOfYear ==
    (script = "decade_comparison" /\ pc >= 1) =>
       /\ \A i \in WithYear :
             /\ Rows[i]["Year"] = RawCell(Rows[i], "iyear")
             /\ Rows[i]["Decade"] % 10 = 0
             /\ Rows[i]["Decade"] <= Rows[i]["Year"]
             /\ Rows[i]["Year"] <= Rows[i]["Decade"] + 9
       /\ \A i, j \in WithYear :
             (Rows[i]["Decade_Label"] = Rows[j]["Decade_Label"])
                <=> (Rows[i]["Decade"] = Rows[j]["Decade"])

\* prepared records of the last year of a decade, of another year of the
\* same decade and of another decade
C17_Witness_Decades ==
    /\ script = "decade_comparison"
    /\ pc >= 1
    /\ \E i, j, k \in WithYear :
         /\ Rows[i]["Year"] = Rows[i]["Decade"] + 9
         /\ Rows[j]["Year"] /= Rows[i]["Year"]
         /\ Rows[j]["Decade_Label"] = Rows[i]["Decade_Label"]
         /\ Rows[k]["Decade_Label"] /= Rows[i]["Decade_Label"]

\* the source fields the analyses of a script read
RequiredFields(s) ==
    IF s = "success_rate_analysis"
    THEN {"iyear", "country_txt", "gname", "success"}
    ELSE {"iyear", "country_txt", "gname", "nkill", "nwound"}

\* C18: when a required source field (nkill, nwound, iyear, gname,
\* country_txt, ...) is absent from the raw table, prepare_data itself
\* fails with a schema error, before any aggregation or plot step.
C18_AbsentFieldFailsInPrepare ==
    [][(/\ script \in {"deadliest_attacks", "success_rate_analysis"}
        /\ pc = 0
        /\ pc' = 1
        /\ ~(RequiredFields(script) \subseteq df.columns))
          => (out'.kind = "error" /\ op' = "prepare_data")]_vars

\* the table prepare_data of the script returns for table t
PreparedAgain(s, t) ==
    CASE s = "deadliest_attacks" -> prepare_data_deadliest(t)
      [] s = "group_analysis" -> prepare_data_group(t)
      [] s = "decade_comparison" -> prepare_data_decade(t)
      [] s = "seasonal_patterns" -> prepare_data_seasonal(t)

\* the script's prepare_data has returned a table
Prepared(scripts) ==
    /\ script \in scripts
    /\ pc >= 1
    /\ ~(op = "prepare_data" /\ out.kind = "error")

\* C19: prepare_data is idempotent on its own output in deadliest_attacks,
\* group_analysis, decade_comparison and seasonal_patterns: applied to the
\* table it returned, it returns an equal table.
C19_PrepareIdempotent ==
    Prepared({"deadliest_attacks", "group_analysis", "decade_comparison",
              "seasonal_patterns"})
       => PreparedAgain(script, df_clean) = df_clean

\* a prepared table with a Casualties column, a record that has casualties
\* and a record whose casualty value was coerced
C19_Witness_Prepared ==
    /\ Prepared({"deadliest_attacks", "group_analysis"})
    /\ "Casualties" \in df_clean.columns
    /\ \E i, j \in DOMAIN Rows :
         /\ Rows[i]["Casualties"] > 0
         /\ RawCell(Rows[j], "nkill") < 0

\* C20: no normalisation, aggregation or ranking operation changes the
\* table it is given: after prepare_data(df) or
\* rank_countries_by_metric(df, metric) the caller's table is as it was
\* before the call.
C20_CallerTableUnchanged ==
    [][(/\ pc' = pc + 1
        /\ op' \in {"prepare_data", "rank_countries_by_metric"})
          => df' = df]_vars

\* the groups of the prepared records, 'Unknown' among them when a record has it
GroupsOf(I) == {Rows[i]["Group"] : i \in I} \ {NA}

\* C21: grouping treats the group value 'Unknown' like any other value.
\* Where 'Unknown' is absent from a result (plot_deadliest_groups,
\* analyze_most_active_groups) the caller's filter Group != 'Unknown' removed
\* it and nothing else; Active_Groups of analyze_decade_overview, which has
\* no such filter, counts 'Unknown' as a group.
C21_UnknownIsAGroup ==
    /\ (op \in {"plot_deadliest_groups", "analyze_most_active_groups"}
          /\ out.kind = "topn") =>
          DOMAIN out.table = GroupsOf(DOMAIN Rows) \ {"Unknown"}
    /\ op = "analyze_decade_overview" =>
          \A d \in DOMAIN out.table :
             out.table[d].Active_Groups
                = Cardinality(GroupsOf({i \in DOMAIN Rows : Rows[i]["Decade_Label"] = d}))

\* a decade with a record of group 'Unknown' and one of a named group: both
\* are counted
C21_Witness_UnknownCounted ==
    /\ op = "analyze_decade_overview"
    /\ \E i \in DOMAIN Rows :
         /\ Rows[i]["Group"] = "Unknown"
         /\ out.table[Rows[i]["Decade_Label"]].Active_Groups >= 2

\* an analysis step has run on a table that has its columns and no rows
RanOnNoRows ==
    /\ script /= "main"
    /\ op \notin {"none", "load_data", "prepare_data"}
    /\ Rows = <<>>
    /\ script \in {"deadliest_attacks", "success_rate_analysis"}
          => "Group" \in df_clean.columns

\* C22: every aggregation, cross-tab and ranking step given a table with no
\* rows (also after a filter such as Month > 0 left none) completes with an
\* empty result and raises no error.
C22_NoRowsNoError ==
    RanOnNoRows =>
       /\ out.kind /= "error"
       /\ out.kind \in {"agg", "topn", "crosstab", "ranking"} => DOMAIN out.table = {}

\* a call of rank_countries_by_metric
RankCall == pc' = pc + 1 /\ op' = "rank_countries_by_metric"

\* C23: rank_countries_by_metric called with a metric other than 'Attacks'
\* or 'Casualties' fails with an error instead of returning a result value,
\* and leaves the input table unchanged: a call either returns the ranking
\* of a supported metric or raises.
C23_UnsupportedMetricRaises ==
    [][RankCall =>
         /\ out'.kind \in {"ranking", "error"}
         /\ out'.kind = "ranking" => out'.metric \in {"Attacks", "Casualties"}
         /\ out'.kind = "error" => df' = df]_vars

\* C23 as the code has it: for a metric other than 'Attacks' or
\* 'Casualties' the function prints that the metric is not supported and
\* returns None, raising nothing and leaving the input table unchanged;
\* a ranking is returned for the two supported metrics only.
C23_UnsupportedMetricReturnsNone ==
    [][RankCall =>
         /\ out'.kind \in {"ranking", "None"}
         /\ out'.kind = "ranking" => out'.metric \in {"Attacks", "Casualties"}
         /\ out'.kind = "None" => (df' = df /\ df_clean' = df_clean)]_vars

\* the call returned None on a table with a missing casualty value, which
\* is still missing, and no Casualties column was added
C23_Witness_NoneReturned ==
    /\ op = "rank_countries_by_metric"
    /\ out = None
    /\ "Casualties" \notin df.columns
    /\ \E i \in DOMAIN df.rows : df.rows[i]["Killed"] = NaN

\* the part of the prepared table made of the records E
Part(E) == IsIn(df_clean, "eventid", E)

Records == {Rows[i]["eventid"] : i \in DOMAIN Rows}

\* the prepared table with its records in the opposite order
Reversed ==
    [df_clean EXCEPT !.rows = [i \in DOMAIN Rows |-> Rows[Len(Rows) + 1 - i]]]

MergeMin(a, b) == IF a = NaN THEN b ELSE IF b = NaN THEN a ELSE Min({a, b})
MergeMax(a, b) == IF a = NaN THEN b ELSE IF b = NaN THEN a ELSE Max({a, b})

\* per-key merge of two partial tables of analyze_most_active_groups: counts
\* and sums added, min of mins, max of maxes
MergeGroupStats(a, b) ==
    [k \in DOMAIN a \cup DOMAIN b |->
       IF k \notin DOMAIN b THEN a[k]
       ELSE IF k \notin DOMAIN a THEN b[k]
       ELSE [Attacks    |-> a[k].Attacks + b[k].Attacks,
             Killed     |-> a[k].Killed + b[k].Killed,
             Wounded    |-> a[k].Wounded + b[k].Wounded,
             First_Year |-> MergeMin(a[k].First_Year, b[k].First_Year),
             Last_Year  |-> MergeMax(a[k].Last_Year, b[k].Last_Year)]]

\* the merged columns of a table of analyze_most_active_groups
Mergeable(stats) ==
    [k \in DOMAIN stats |->
       [Attacks    |-> stats[k].Attacks,
        Killed     |-> stats[k].Killed,
        Wounded    |-> stats[k].Wounded,
        First_Year |-> stats[k].First_Year,
        Last_Year  |-> stats[k].Last_Year]]

\* per-key merge of two partial tables of analyze_lethality_trends: a mean is
\* the merged sum over the merged count
MergeMean(x, y) == Frac(x.num + y.num, x.den + y.den)

MergeYearlyStats(a, b) ==
    [k \in DOMAIN a \cup DOMAIN b |->
       IF k \notin DOMAIN b THEN a[k]
       ELSE IF k \notin DOMAIN a THEN b[k]
       ELSE [Total_Killed  |-> a[k].Total_Killed + b[k].Total_Killed,
             Avg_Killed    |-> MergeMean(a[k].Avg_Killed, b[k].Avg_Killed),
             Total_Wounded |-> a[k].Total_Wounded + b[k].Total_Wounded,
             Avg_Wounded   |-> MergeMean(a[k].Avg_Wounded, b[k].Avg_Wounded),
             Attacks       |-> a[k].Attacks + b[k].Attacks]]

\* C24: grouped aggregation is a commutative and associative reduction: for
\* every split of the table into two disjoint parts, aggregating each part
\* and merging per key (counts and sums added, min of mins, max of maxes,
\* mean as merged sum over merged count) gives the rows and values of the
\* aggregation of the whole table, and the order of the records does not
\* matter.
C24_SplitAndMerge ==
    /\ op = "analyze_most_active_groups" =>
          /\ \A E \in SUBSET Records :
                Mergeable(out.table)
                   = MergeGroupStats(Mergeable(ActiveGroupStats(Part(E))),
                                     Mergeable(ActiveGroupStats(Part(Records \ E))))
          /\ out.table = ActiveGroupStats(Reversed)
    /\ op = "analyze_lethality_trends" =>
          /\ \A E \in SUBSET Records :
                out.table = MergeYearlyStats(YearlyStats(Part(E)),
                                             YearlyStats(Part(Records \ E)))
          /\ out.table = YearlyStats(Reversed)

\* a group whose records are split between two non-empty parts, with
\* different years in the two parts
C24_Witness_SplitGroup ==
    /\ op = "analyze_most_active_groups"
    /\ \E i, j \in DOMAIN Rows :
         /\ Rows[i]["Group"] = Rows[j]["Group"]
         /\ Rows[i]["Group"] \in DOMAIN out.table
         /\ Rows[i]["Year"] /= NaN
         /\ Rows[j]["Year"] /= NaN
         /\ Rows[i]["Year"] < Rows[j]["Year"]
         /\ i > j

\* the column names an analysis step reads of the table it is given
ColumnsRead ==
    CASE op = "analyze_deadliest_attacks" -> ListedColumns
      [] op = "plot_deadliest_by_region" -> {"Region", "Killed", "Wounded", "Year"}
      [] op = "plot_deadliest_groups" -> {"Group", "Killed", "Wounded", "Year"}
      [] op = "analyze_lethality_trends" -> {"Year", "Killed", "Wounded", "Country"}
      [] op = "analyze_decade_overview" ->
           {"Decade_Label", "Year", "Killed", "Wounded", "Country", "Group"}
      [] op = "analyze_regional_shift" -> {"Decade_Label", "Region"}
      [] op = "analyze_attack_type_evolution" -> {"Decade_Label", "AttackType"}
      [] op = "analyze_target_evolution" -> {"Decade_Label", "Target_type"}
      [] op = "rank_countries_by_metric" -> {"Country"}
      [] op = "analyze_kazakhstan_data" ->
           IF \E i \in DOMAIN Rows : Rows[i]["Country"] = "Kazakhstan"
           THEN {"Country"} \cup Range(KazakhstanColumns)
           ELSE {"Country"}
      [] op = "analyze_most_active_groups" ->
           {"Group", "Year", "Killed", "Wounded", "Country"}
      [] op = "analyze_group_activity_timeline" -> {"Group", "Year"}
      [] op = "analyze_group_targets" -> {"Group", "Target_type"}
      [] op = "analyze_group_geographic_spread" -> {"Group", "Country", "Region", "Year"}
      [] op = "analyze_central_asia_groups" ->
           {"Region", "Group", "Year", "Killed", "Country"}
      [] op = "analyze_top_groups_success" -> {"Group", "Success"}
      [] op = "analyze_seasonal_patterns" -> {"Season", "Year", "Killed", "Wounded"}
      [] op = "analyze_regional_seasonal_patterns" -> {"Region", "Season"}
      [] op = "rank_by_attacks_per_capita" -> {"Country"}
      [] OTHER -> {}

\* the loaded file had every raw source column
FullFile ==
    /\ df /= None
    /\ \/ script \notin {"deadliest_attacks", "success_rate_analysis"}
       \/ {"Year", "Country", "Group", "Killed", "Wounded"} \subseteq df.columns

\* C25: given a raw table with all raw source columns, each column name an
\* analysis function reads exists in the table when it is read: after the
\* rename step only renamed names are read, never a raw name the rename
\* has replaced.
C25_ColumnsReadExist ==
    FullFile => ColumnsRead \subseteq df_clean.columns

\* C26: main() runs its ten analysis steps in the order analyze,
\* analyze_per_capita, success_rate_analysis, seasonal_patterns,
\* deadliest_attacks, group_analysis, target_vulnerability,
\* decade_comparison, kazakhstan_rankings, kazakhstan_details, each once
\* and after the previous one returned, and reaches the end: every import
\* succeeds, every module has the run_analysis that main() calls, and no
\* analysis runs at import time.
C26_MainRunsTenSteps ==
    script = "main" =>
       /\ out.kind \in {"none", "main"}
       /\ Ran = SubSeq(MainCalls, 1, Len(Ran))
       /\ pc <= Len(MainImports) => Ran = <<>>
       /\ pc > Len(MainImports) => Len(Ran) = pc - Len(MainImports)

\* C27: when the dataset file is missing every script reports the error and
\* stops its own analysis without raising and without ending the process:
\* load_data returns None, run_analysis returns before any normalisation,
\* aggregation or plot step, and a driver that called it can go on.
C27_MissingFileReturns ==
    df = None =>
       /\ script /= "main" =>
             /\ out.kind \in {"none", "returned"}
             /\ op \in {"none", "load_data"}
             /\ pc = 0
             /\ df_clean = EmptyTable
       /\ script = "main" => out.kind /= "exit"

\* C28: get_season maps months 12, 1, 2 to Winter, 3-5 to Spring, 6-8 to
\* Summer and 9-11 to Autumn, and gives a season to no other month value:
\* every record counted under Autumn has Month in {9, 10, 11}, so no
\* record with a month outside 1..12 is placed in a season by default.
C28_SeasonOnlyForItsMonths ==
    (script = "seasonal_patterns" /\ pc >= 1) =>
       /\ \A i \in DOMAIN Rows :
             Rows[i]["Month"] \in MonthsOfSeason(Rows[i]["Season"])
       /\ op = "analyze_seasonal_patterns" =>
             \A season \in season_order :
                out.table[season].Attacks /= NaN =>
                   out.table[season].Attacks
                      = Cardinality({i \in DOMAIN df.rows :
                                        /\ df.rows[i]["Month"] \in MonthsOfSeason(season)
                                        /\ df.rows[i]["Year"] /= NaN})

\* C29: the record-level top-N of analyze_deadliest_attacks depends only on
\* the set of records, not on their order in the table: the same table with
\* its records in another order (here the opposite order) returns the same
\* records in the same ranked order, also when records have equal Killed
\* at the cut-off.
C29_ListingIgnoresOrder ==
    (op = "analyze_deadliest_attacks" /\ out.kind = "listing") =>
       \A other \in DeadliestListings(Reversed, out.n) : other = out.order

\* what the analyze_per_capita script computes of the records that
\* rank_per_capita has loaded, with the same population source
OtherPerCapita ==
    AttacksPerMillion(WithPopulation(Rename(df_clean, [Country |-> "country_txt"])))

\* C30: the two per-capita implementations agree: for the same records and
\* the same population source, rank_by_attacks_per_capita and the
\* analyze_per_capita script keep the same countries and give each kept
\* country the same attacks-per-million value and the same position in the
\* descending ranking.
C30_PerCapitaAgree ==
    op = "rank_by_attacks_per_capita" =>
       /\ DOMAIN out.table = DOMAIN OtherPerCapita
       /\ \A k \in DOMAIN out.table :
             out.table[k].AttacksPerCapita = OtherPerCapita[k].AttacksPerCapita
       /\ out.order \in DescOrders(DOMAIN OtherPerCapita, RateRank(OtherPerCapita))

====
